---- MODULE Spec2Model ----
(***************************************************************************)
(* File-profiling engine of Data-Algo-Analyser (src/lib/resultGenerator.ts,*)
(* the part that the page imports as ./fileAnalyzer): analyzeFile and the  *)
(* pure helpers it calls.                                                  *)
(*                                                                         *)
(* Representation.  A JavaScript string is a sequence of one-character     *)
(* strings.  A JavaScript value is a record with a tag field t:            *)
(*   [t |-> "undefined"], [t |-> "null"], [t |-> "bool", b |-> BOOLEAN],   *)
(*   [t |-> "num", mant |-> Int, exp |-> Int]   (the decimal mant*10^exp), *)
(*   [t |-> "str", s |-> string], [t |-> "arr", items |-> Seq(value)],     *)
(*   [t |-> "obj", keys |-> Seq(string), vals |-> Seq(value)].             *)
(* An optional field of a record is a sequence of length 0 (absent) or 1.  *)
(***************************************************************************)
EXTENDS Integers, Sequences, FiniteSets, TLC

VARIABLES
    file,       \* the File handed to analyzeFile: name and content
    pc,         \* position of the analyzeFile call: idle, reading, resolved, rejected
    result,     \* the AnalysisResult the call resolved with (None before)
    error,      \* the reason the call rejected with (None before)
    values,     \* detectDataType: the column handed to it
    dataType,   \* detectDataType: the tag it returned (None before the call)
    recInput,   \* generateRecommendations: [dataTypes, rowCount] handed to it
    recOutput,  \* generateRecommendations: the list it returned (None before)
    statInput,  \* calculateStatistics: the array handed to it
    statOutput, \* calculateStatistics: the record it returned (None before)
    sizeInput,  \* formatFileSize: the byte length handed to it
    sizeOutput, \* formatFileSize: the text it returned (None before)
    calls,      \* two analyzeFile calls side by side: file, pc, result, error of each
    page,       \* the useState values of the page component Home
    upload,     \* the handleFilesUploaded call in flight and its interval (None if none)
    timers,     \* the pending setTimeout callbacks of the page, with what they captured
    genInput,   \* generateResults: [fileAnalysis, algorithmId, outputConfig] handed to it
    genOutput,  \* generateResults: the list it returned (None before)
    widget      \* FileUploadArea: its file list, its errors, the batches it forwarded

vars == <<file, pc, result, error, values, dataType, recInput, recOutput,
          statInput, statOutput, sizeInput, sizeOutput,
          calls, page, upload, timers, genInput, genOutput, widget>>

pureCalls == <<statInput, statOutput, sizeInput, sizeOutput>>

pageVars == <<page, upload, timers>>
uiVars == <<calls, page, upload, timers, genInput, genOutput, widget>>

None == <<>>
Some(x) == <<x>>

\* the member of a one-element set.  Only({e(x) : x \in {d}}) is e(d) with d
\* evaluated once, where LET x == d IN e(x) may evaluate d at every use of x.
Only(S) == CHOOSE x \in S : TRUE

(***************************************************************************)
(* Characters and the String methods the analysers use                     *)
(***************************************************************************)
Digits == {"0", "1", "2", "3", "4", "5", "6", "7", "8", "9"}
DigitSeq == <<"0", "1", "2", "3", "4", "5", "6", "7", "8", "9">>
WhiteSpace == {" ", "\t", "\n", "\r"}
UpperCase == <<"A", "B", "C", "D", "E", "F", "G", "H", "I", "J", "K", "L", "M",
               "N", "O", "P", "Q", "R", "S", "T", "U", "V", "W", "X", "Y", "Z">>
LowerCase == <<"a", "b", "c", "d", "e", "f", "g", "h", "i", "j", "k", "l", "m",
               "n", "o", "p", "q", "r", "s", "t", "u", "v", "w", "x", "y", "z">>

DigitVal(c) == (CHOOSE i \in 1..10 : DigitSeq[i] = c) - 1

RECURSIVE Pow10(_)
Pow10(n) == IF n <= 0 THEN 1 ELSE 10 * Pow10(n - 1)

\* the text from position i to the end
From(s, i) == SubSeq(s, i, Len(s))

\* s starts with the text p
StartsWith(s, p) == Len(s) >= Len(p) /\ SubSeq(s, 1, Len(p)) = p

AllDigits(s, i, j) == \A k \in i..j : s[k] \in Digits

\* String.prototype.toLowerCase
toLowerCase(s) ==
    [i \in 1..Len(s) |->
        IF \E k \in 1..26 : UpperCase[k] = s[i]
        THEN LowerCase[CHOOSE k \in 1..26 : UpperCase[k] = s[i]]
        ELSE s[i]]

\* String.prototype.trimStart, trim
Ink(s) == {i \in 1..Len(s) : s[i] \notin WhiteSpace}

\* the k-th smallest member of S
Nth(S, k) == CHOOSE x \in S : Cardinality({y \in S : y < x}) = k - 1

trimStart(s) ==
    Only({IF ink = {} THEN <<>> ELSE SubSeq(s, Nth(ink, 1), Len(s)) : ink \in {Ink(s)}})

trim(s) ==
    Only({IF ink = {} THEN <<>> ELSE SubSeq(s, Nth(ink, 1), Nth(ink, Cardinality(ink))) : ink \in {Ink(s)}})

\* String.prototype.split with a one-character separator: the pieces between
\* the separators, one more than there are separators
split(s, sep) ==
    Only({[k \in 1..(Cardinality(cuts) - 1) |->
                SubSeq(s, Nth(cuts, k) + 1, Nth(cuts, k + 1) - 1)]
          : cuts \in {{0, Len(s) + 1} \cup {i \in 1..Len(s) : s[i] = sep}}})

\* Array.prototype.slice(from, to), both zero-based, to exclusive
slice(seq, from, to) ==
    SubSeq(seq, from + 1, IF to < Len(seq) THEN to ELSE Len(seq))

\* the number of occurrences of the character c in s
CountChar(s, c) == Cardinality({i \in 1..Len(s) : s[i] = c})

(***************************************************************************)
(* Numbers: parseFloat, Number (as isFinite applies it) and String         *)
(***************************************************************************)
Num(m, e) == [t |-> "num", mant |-> m, exp |-> e]
NaN == [t |-> "nan"]
Infinity == [t |-> "inf"]
Undefined == [t |-> "undefined"]
Null == [t |-> "null"]
Str(s) == [t |-> "str", s |-> s]
Bool(b) == [t |-> "bool", b |-> b]

InfinityText == <<"I", "n", "f", "i", "n", "i", "t", "y">>

\* the position after the longest run of digits that starts at position i
RECURSIVE ScanDigits(_, _)
ScanDigits(s, i) ==
    IF i <= Len(s) /\ s[i] \in Digits THEN ScanDigits(s, i + 1) ELSE i

\* the value of the digits s[i..j], 0 for an empty range
RECURSIVE DigitsValue(_, _, _)
DigitsValue(s, i, j) ==
    IF j < i THEN 0 ELSE 10 * DigitsValue(s, i, j - 1) + DigitVal(s[j])

\* The longest prefix of s that is a StrDecimalLiteral (ECMA-262 7.1.4.1):
\* sign? (Infinity | digits . digits? exp? | . digits exp? | digits exp?).
\* p is the position after the sign, q after the integer digits, r after the
\* fraction (q where there is no point), eStart where the digits of an
\* exponent would start (r where there is no e), eEnd after those digits.
decimalValue(s, p, q, r, fracLen, eStart, eEnd) ==
    IF (q - p) + fracLen = 0
    THEN [val |-> NaN, next |-> 1]
    ELSE [val |-> Num((IF p = 2 /\ s[1] = "-" THEN -1 ELSE 1)
                        * (DigitsValue(s, p, q - 1) * Pow10(fracLen) + DigitsValue(s, q + 1, r - 1)),
                      (IF eEnd = eStart THEN 0
                       ELSE IF eStart = r + 2 /\ s[r + 1] = "-" THEN -DigitsValue(s, eStart, eEnd - 1)
                       ELSE DigitsValue(s, eStart, eEnd - 1)) - fracLen),
          next |-> IF eEnd > eStart THEN eEnd ELSE r]

decimalFraction(s, p, q, r) ==
    Only({Only({decimalValue(s, p, q, r, IF r > q THEN r - q - 1 ELSE 0, eStart, eEnd)
                : eEnd \in {IF eStart > r THEN ScanDigits(s, eStart) ELSE r}})
          : eStart \in {IF r <= Len(s) /\ s[r] \in {"e", "E"}
                        THEN (IF r + 1 <= Len(s) /\ s[r + 1] \in {"+", "-"} THEN r + 2 ELSE r + 1)
                        ELSE r}})

decimalInteger(s, p, q) ==
    Only({decimalFraction(s, p, q, r)
          : r \in {IF q <= Len(s) /\ s[q] = "." THEN ScanDigits(s, q + 1) ELSE q}})

ParseDecimal(s) ==
    Only({IF StartsWith(From(s, p), InfinityText)
          THEN [val |-> Infinity, next |-> p + Len(InfinityText)]
          ELSE Only({decimalInteger(s, p, q) : q \in {ScanDigits(s, p)}})
          : p \in {IF s # <<>> /\ s[1] \in {"+", "-"} THEN 2 ELSE 1}})

RECURSIVE NumDigits(_)
NumDigits(n) == IF n < 10 THEN 1 ELSE 1 + NumDigits(n \div 10)

Abs(n) == IF n < 0 THEN -n ELSE n

\* a decimal beyond the double range rounds to Infinity (the rounding at the
\* very edge of the range, 1.797e308, is taken at the power of ten)
Overflows(n) == n.mant # 0 /\ NumDigits(Abs(n.mant)) + n.exp > 309

\* 0x.., 0o.., 0b.. (NonDecimalIntegerLiteral)
IsNonDecimalLiteral(s) ==
    /\ Len(s) >= 3
    /\ s[1] = "0"
    /\ \/ /\ s[2] \in {"x", "X"}
          /\ \A k \in 3..Len(s) :
                s[k] \in Digits \cup {"a", "b", "c", "d", "e", "f", "A", "B", "C", "D", "E", "F"}
       \/ s[2] \in {"o", "O"} /\ \A k \in 3..Len(s) : s[k] \in {"0", "1", "2", "3", "4", "5", "6", "7"}
       \/ s[2] \in {"b", "B"} /\ \A k \in 3..Len(s) : s[k] \in {"0", "1"}

\* String(v) for a number mant*10^exp of ordinary magnitude
RECURSIVE IntToStr(_)
IntToStr(n) ==
    IF n < 0 THEN <<"-">> \o IntToStr(-n)
    ELSE IF n < 10 THEN <<DigitSeq[n + 1]>>
    ELSE IntToStr(n \div 10) \o <<DigitSeq[(n % 10) + 1]>>

RECURSIVE FracToStr(_, _)
FracToStr(f, k) ==   \* the k-digit fraction f without its trailing zeros
    IF f = 0 THEN <<>>
    ELSE <<DigitSeq[(f \div Pow10(k - 1)) + 1]>> \o FracToStr(f % Pow10(k - 1), k - 1)

NumToStr(n) ==
    IF n.exp >= 0 THEN IntToStr(n.mant * Pow10(n.exp))
    ELSE LET a == Abs(n.mant)
             k == -n.exp
             frac == FracToStr(a % Pow10(k), k)
         IN (IF n.mant < 0 THEN <<"-">> ELSE <<>>)
            \o IntToStr(a \div Pow10(k))
            \o (IF frac = <<>> THEN <<>> ELSE <<".">> \o frac)

\* Array.prototype.join(",") over texts
RECURSIVE join(_)
join(texts) ==
    IF texts = <<>> THEN <<>>
    ELSE IF Len(texts) = 1 THEN texts[1]
    ELSE texts[1] \o <<",">> \o join(Tail(texts))

\* String(v)
RECURSIVE ToStr(_)
ToStr(v) ==
    CASE v.t = "undefined" -> <<"u", "n", "d", "e", "f", "i", "n", "e", "d">>
      [] v.t = "null" -> <<"n", "u", "l", "l">>
      [] v.t = "bool" -> IF v.b THEN <<"t", "r", "u", "e">>
                         ELSE <<"f", "a", "l", "s", "e">>
      [] v.t = "str" -> v.s
      [] v.t = "num" -> NumToStr(v)
      [] v.t = "obj" -> <<"[", "o", "b", "j", "e", "c", "t", " ",
                          "O", "b", "j", "e", "c", "t", "]">>
      [] v.t = "arr" ->
            join([i \in 1..Len(v.items) |->
                    IF v.items[i].t \in {"null", "undefined"} THEN <<>>
                    ELSE ToStr(v.items[i])])

\* parseFloat(v): v is turned into a string, leading white space is skipped
parseFloat(v) == Only({ParseDecimal(s).val : s \in {trimStart(ToStr(v))}})

\* Number(text)
StringToNumber(s) ==
    LET Literal(t, d) ==
            IF t = <<>> THEN Num(0, 0)
            ELSE IF IsNonDecimalLiteral(t) THEN Num(1, 0)   \* some finite number
            ELSE IF d.val.t # "nan" /\ d.next = Len(t) + 1
            THEN (IF d.val.t = "num" /\ Overflows(d.val) THEN Infinity ELSE d.val)
            ELSE NaN
    IN  Only({Literal(t, ParseDecimal(t)) : t \in {trim(s)}})

\* Number(v)
ToNumber(v) ==
    CASE v.t = "undefined" -> NaN
      [] v.t = "null" -> Num(0, 0)
      [] v.t = "bool" -> Num(IF v.b THEN 1 ELSE 0, 0)
      [] v.t = "num" -> v
      [] v.t \in {"str", "obj", "arr"} -> StringToNumber(ToStr(v))

isNaN(n) == n.t = "nan"
isFinite(v) == ToNumber(v).t = "num"

(***************************************************************************)
(* detectDataType (resultGenerator.ts 593-621)                             *)
(***************************************************************************)
Tags == {"number", "date", "boolean", "string", "empty"}

\* v !== undefined && v !== null && v !== ""
IsNonEmpty(v) == v.t # "undefined" /\ v.t # "null" /\ ~(v.t = "str" /\ v.s = <<>>)

\* !isNaN(parseFloat(v)) && isFinite(v)
IsNumberLike(v) == ~isNaN(parseFloat(v)) /\ isFinite(v)

IsDateSep(c) == c \in {"-", "/"}

\* first alternative of datePattern, ^\d{4}[-/]\d{1,2}[-/]\d{1,2} : it is
\* anchored at the start of the text only
DateAlt1(s) ==
    \E a \in 1..2, b \in 1..2 :
        /\ Len(s) >= 6 + a + b
        /\ AllDigits(s, 1, 4)
        /\ IsDateSep(s[5])
        /\ AllDigits(s, 6, 5 + a)
        /\ IsDateSep(s[6 + a])
        /\ AllDigits(s, 7 + a, 6 + a + b)

\* second alternative of datePattern, \d{1,2}[-/]\d{1,2}[-/]\d{2,4}$ : it is
\* anchored at the end of the text only
DateAlt2(s) ==
    \E a \in 1..2, b \in 1..2, c \in 2..4 :
        LET st == Len(s) - (a + b + c + 2)
        IN  /\ st >= 0
            /\ AllDigits(s, st + 1, st + a)
            /\ IsDateSep(s[st + a + 1])
            /\ AllDigits(s, st + a + 2, st + a + b + 1)
            /\ IsDateSep(s[st + a + b + 2])
            /\ AllDigits(s, st + a + b + 3, Len(s))

\* datePattern.test(s): an unanchored search, either alternative may match
datePattern(s) == DateAlt1(s) \/ DateAlt2(s)

booleanValues == << <<"t", "r", "u", "e">>, <<"f", "a", "l", "s", "e">>, <<"0">>,
                    <<"1">>, <<"y", "e", "s">>, <<"n", "o">> >>

\* booleanValues.includes(String(v).toLowerCase())
IsBooleanWord(v) ==
    \E word \in {toLowerCase(ToStr(v))} :
        \E i \in 1..Len(booleanValues) : booleanValues[i] = word

\* resultGenerator.ts 602-604
allNumbers(vs) == \A i \in 1..Len(vs) : IsNumberLike(vs[i])

\* resultGenerator.ts 609
allDates(vs) == \A i \in 1..Len(vs) : \E text \in {ToStr(vs[i])} : datePattern(text)

\* resultGenerator.ts 613-615
allBooleans(vs) == \A i \in 1..Len(vs) : IsBooleanWord(vs[i])

\* faulty variant: the boolean words are tried before the numbers
detectDataTypeBooleanFirst(vals) ==
    Only({IF nonEmptyValues = <<>> THEN "empty"
          ELSE IF allBooleans(nonEmptyValues) THEN "boolean"
          ELSE IF allNumbers(nonEmptyValues) THEN "number"
          ELSE IF allDates(nonEmptyValues) THEN "date"
          ELSE "string"
          : nonEmptyValues \in {SelectSeq(vals, IsNonEmpty)}})

\* resultGenerator.ts 593-621
detectDataType(vals) ==
    Only({IF nonEmptyValues = <<>> THEN "empty"
          ELSE IF allNumbers(nonEmptyValues) THEN "number"
          ELSE IF allDates(nonEmptyValues) THEN "date"
          ELSE IF allBooleans(nonEmptyValues) THEN "boolean"
          ELSE "string"
          : nonEmptyValues \in {SelectSeq(vals, IsNonEmpty)}})

(***************************************************************************)
(* calculateStatistics (resultGenerator.ts 626-654).  Numbers are taken in *)
(* fixed point with FracDigits decimals; a quotient is the reduced         *)
(* fraction [num, den]; stdDev is given by its square, the variance.       *)
(***************************************************************************)
FracDigits == 2

ToFixed(n) ==
    IF n.exp + FracDigits >= 0 THEN n.mant * Pow10(n.exp + FracDigits)
    ELSE n.mant \div Pow10(-(n.exp + FracDigits))

RECURSIVE GCD(_, _)
GCD(a, b) == IF b = 0 THEN a ELSE Only({GCD(b, r) : r \in {a % b}})

Rat(n, d) == Only({[num |-> n \div g, den |-> d \div g] : g \in {GCD(Abs(n), d)}})

\* the sum of xs[1..n]
RECURSIVE Sum(_, _)
Sum(xs, n) == IF n = 0 THEN 0 ELSE xs[n] + Sum(xs, n - 1)

\* [...values].sort((a, b) => a - b): the k-th member is the value with fewer
\* than k members below it and at least k members not above it
SortAscending(xs) ==
    [k \in 1..Len(xs) |->
        CHOOSE v \in {xs[i] : i \in 1..Len(xs)} :
            /\ Cardinality({i \in 1..Len(xs) : xs[i] < v}) < k
            /\ k <= Cardinality({i \in 1..Len(xs) : xs[i] <= v})]

\* faulty variant: for an even count the median is the upper central value
statisticsOfUpperMedian(xs, sortedValues, sum, sumOfSquares, n, unit) ==
    Some([min |-> Rat(sortedValues[1], unit),
          max |-> Rat(sortedValues[n], unit),
          mean |-> Rat(sum, n * unit),
          median |-> Rat(sortedValues[n \div 2 + 1], unit),
          stdDevSquared |-> Rat(n * sumOfSquares - sum * sum, n * n * unit * unit),
          count |-> n])

\* {} for no value, else the six statistics
statisticsOf(xs, sortedValues, sum, sumOfSquares, n, unit) ==
    Some([min |-> Rat(sortedValues[1], unit),
          max |-> Rat(sortedValues[n], unit),
          mean |-> Rat(sum, n * unit),
          median |-> IF n % 2 = 0
                     THEN Rat(sortedValues[n \div 2] + sortedValues[n \div 2 + 1], 2 * unit)
                     ELSE Rat(sortedValues[n \div 2 + 1], unit),
          \* sum of (x - sum/n)^2, over n : (n * sum(x^2) - sum^2) / n^2
          stdDevSquared |-> Rat(n * sumOfSquares - sum * sum, n * n * unit * unit),
          count |-> n])

\* {} for no value, else the six statistics of the values in fixed point
calculateStatistics(nums) ==
    IF nums = <<>> THEN None
    ELSE Only({statisticsOf(xs, SortAscending(xs), Sum(xs, Len(xs)),
                            Sum([i \in 1..Len(xs) |-> xs[i] * xs[i]], Len(xs)),
                            Len(xs), Pow10(FracDigits))
               : xs \in {[i \in 1..Len(nums) |-> ToFixed(nums[i])]}})

(***************************************************************************)
(* generateRecommendations (resultGenerator.ts 659-727)                    *)
(***************************************************************************)
RandomForest == "Random Forest algorithm is recommended for mixed numeric and categorical data"
PCA == "Principal Component Analysis (PCA) can help reduce dimensionality"
DecisionTree == "Decision Tree algorithm works well with categorical data"
TimeSeries == "Time Series analysis is recommended for temporal data"
XGBoost == "XGBoost algorithm performs well on large datasets"
KNN == "K-Nearest Neighbors algorithm works well with smaller datasets"
GraphVisualization == "Graph visualization is recommended for multi-dimensional data"
BarCharts == "Bar charts or line graphs are recommended for numeric data visualization"
PieCharts == "Pie charts are effective for categorical data distribution"

\* Object.values(dataTypes).filter(type => type is one of tags).length
CountTypes(dataTypes, tags) ==
    Cardinality({h \in DOMAIN dataTypes : dataTypes[h] \in tags})

If(cond, text) == IF cond THEN <<text>> ELSE <<>>

\* faulty variant: the thresholds 3, 100 and 1000 are taken inclusively
generateRecommendationsInclusive(dataTypes, rowCount) ==
    LET numericColumns == CountTypes(dataTypes, {"number"})
        categoricalColumns == CountTypes(dataTypes, {"string", "boolean"})
        dateColumns == CountTypes(dataTypes, {"date"})
    IN  If(numericColumns > 0 /\ categoricalColumns > 0, RandomForest)
        \o If(numericColumns >= 3, PCA)
        \o If(categoricalColumns > numericColumns, DecisionTree)
        \o If(dateColumns > 0, TimeSeries)
        \o (IF rowCount >= 1000 THEN <<XGBoost>>
            ELSE IF rowCount <= 100 THEN <<KNN>> ELSE <<>>)
        \o (IF numericColumns >= 3 THEN <<GraphVisualization>>
            ELSE IF numericColumns > 0 THEN <<BarCharts>> ELSE <<>>)
        \o If(categoricalColumns > 0, PieCharts)

\* resultGenerator.ts 659-727
generateRecommendations(dataTypes, rowCount) ==
    LET numericColumns == CountTypes(dataTypes, {"number"})
        categoricalColumns == CountTypes(dataTypes, {"string", "boolean"})
        dateColumns == CountTypes(dataTypes, {"date"})
    IN  If(numericColumns > 0 /\ categoricalColumns > 0, RandomForest)
        \o If(numericColumns > 3, PCA)
        \o If(categoricalColumns > numericColumns, DecisionTree)
        \o If(dateColumns > 0, TimeSeries)
        \o (IF rowCount > 1000 THEN <<XGBoost>>
            ELSE IF rowCount < 100 THEN <<KNN>> ELSE <<>>)
        \o (IF numericColumns > 3 THEN <<GraphVisualization>>
            ELSE IF numericColumns > 0 THEN <<BarCharts>> ELSE <<>>)
        \o If(categoricalColumns > 0, PieCharts)

(***************************************************************************)
(* JSON.parse, for texts without backslash escapes                         *)
(***************************************************************************)
Arr(items) == [t |-> "arr", items |-> items]
Obj(keys, vals) == [t |-> "obj", keys |-> keys, vals |-> vals]
EmptyObject == Obj(<<>>, <<>>)

ParseFail == [ok |-> FALSE]
ParseOk(v, next) == [ok |-> TRUE, val |-> v, next |-> next]

RECURSIVE SkipWs(_, _)
SkipWs(s, i) ==
    IF i <= Len(s) /\ s[i] \in WhiteSpace THEN SkipWs(s, i + 1) ELSE i

\* the position of the first '"' at or after i, Len(s) + 1 if there is none
RECURSIVE ScanQuote(_, _)
ScanQuote(s, i) ==
    IF i <= Len(s) /\ s[i] # "\"" THEN ScanQuote(s, i + 1) ELSE i

\* a string literal whose opening quote is at position i
ParseString(s, i) ==
    Only({IF k > Len(s) \/ \E j \in (i + 1)..(k - 1) : s[j] \in {"\t", "\n", "\r"}
          THEN ParseFail
          ELSE ParseOk(SubSeq(s, i + 1, k - 1), k + 1)
          : k \in {ScanQuote(s, i + 1)}})

\* a number literal at position i: -? (0 | [1-9] digits) (. digits+)? ([eE] [+-]? digits+)?
\* p is the position of the first digit, q the position after the integer
\* digits, d the decimal literal read from position i on
numberLiteral(s, i, p, q, d) ==
    IF \/ q = p                                                  \* no integer digit
       \/ (q - p > 1 /\ s[p] = "0")                              \* leading zero
       \/ (q <= Len(s) /\ s[q] = "." /\ ScanDigits(s, q + 1) = q + 1)   \* no digit after the point
       \/ (i + d.next - 1 <= Len(s) /\ s[i + d.next - 1] \in {"e", "E"})  \* no exponent digit
    THEN ParseFail
    ELSE ParseOk(IF Overflows(d.val) THEN Infinity ELSE d.val, i + d.next - 1)

ParseNumber(s, i) ==
    Only({numberLiteral(s, i, IF s[i] = "-" THEN i + 1 ELSE i, q, d)
          : q \in {ScanDigits(s, IF s[i] = "-" THEN i + 1 ELSE i)},
            d \in {ParseDecimal(From(s, i))}})

\* the object (keys, vals) with key k set to v: a repeated key keeps its place
ObjPut(keys, vals, k, v) ==
    IF \E i \in 1..Len(keys) : keys[i] = k
    THEN [keys |-> keys,
          vals |-> [i \in 1..Len(vals) |-> IF keys[i] = k THEN v ELSE vals[i]]]
    ELSE [keys |-> Append(keys, k), vals |-> Append(vals, v)]

RECURSIVE ParseValue(_, _)
RECURSIVE ParseElements(_, _, _, _)
RECURSIVE ParseMembers(_, _, _, _, _)
RECURSIVE elementsAfter(_, _, _, _)
RECURSIVE membersAfterKey(_, _, _, _, _)
RECURSIVE membersAfterValue(_, _, _)

\* the elements of an array from position i on; first: none was read yet
ParseElements(s, i, items, first) ==
    Only({IF j > Len(s) THEN ParseFail
          ELSE IF first /\ s[j] = "]" THEN ParseOk(Arr(items), j + 1)
          ELSE Only({IF v.ok
                     THEN Only({elementsAfter(s, k, items, v.val) : k \in {SkipWs(s, v.next)}})
                     ELSE ParseFail
                     : v \in {ParseValue(s, j)}})
          : j \in {SkipWs(s, i)}})

\* k is the position after the element v and the white space behind it
elementsAfter(s, k, items, v) ==
    IF k > Len(s) THEN ParseFail
    ELSE IF s[k] = "," THEN ParseElements(s, k + 1, Append(items, v), FALSE)
    ELSE IF s[k] = "]" THEN ParseOk(Arr(Append(items, v)), k + 1)
    ELSE ParseFail

\* the members of an object from position i on
ParseMembers(s, i, keys, vals, first) ==
    Only({IF j > Len(s) THEN ParseFail
          ELSE IF first /\ s[j] = "}" THEN ParseOk(Obj(keys, vals), j + 1)
          ELSE IF s[j] # "\"" THEN ParseFail
          ELSE Only({IF key.ok THEN membersAfterKey(s, SkipWs(s, key.next), keys, vals, key.val)
                     ELSE ParseFail
                     : key \in {ParseString(s, j)}})
          : j \in {SkipWs(s, i)}})

\* c is the position after the key and the white space behind it
membersAfterKey(s, c, keys, vals, key) ==
    IF c > Len(s) \/ s[c] # ":" THEN ParseFail
    ELSE Only({IF v.ok
               THEN Only({membersAfterValue(s, k, set)
                          : k \in {SkipWs(s, v.next)}, set \in {ObjPut(keys, vals, key, v.val)}})
               ELSE ParseFail
               : v \in {ParseValue(s, c + 1)}})

\* k is the position after the member and the white space behind it, set
\* is the object with the member in it
membersAfterValue(s, k, set) ==
    IF k > Len(s) THEN ParseFail
    ELSE IF s[k] = "," THEN ParseMembers(s, k + 1, set.keys, set.vals, FALSE)
    ELSE IF s[k] = "}" THEN ParseOk(Obj(set.keys, set.vals), k + 1)
    ELSE ParseFail

ParseValue(s, i) ==
    Only({IF j > Len(s) THEN ParseFail
          ELSE IF s[j] = "{" THEN ParseMembers(s, j + 1, <<>>, <<>>, TRUE)
          ELSE IF s[j] = "[" THEN ParseElements(s, j + 1, <<>>, TRUE)
          ELSE IF s[j] = "\"" THEN
              Only({IF str.ok THEN ParseOk(Str(str.val), str.next) ELSE ParseFail
                    : str \in {ParseString(s, j)}})
          ELSE IF StartsWith(From(s, j), <<"n", "u", "l", "l">>) THEN ParseOk(Null, j + 4)
          ELSE IF StartsWith(From(s, j), <<"t", "r", "u", "e">>) THEN ParseOk(Bool(TRUE), j + 4)
          ELSE IF StartsWith(From(s, j), <<"f", "a", "l", "s", "e">>) THEN ParseOk(Bool(FALSE), j + 5)
          ELSE IF s[j] = "-" \/ s[j] \in Digits THEN ParseNumber(s, j)
          ELSE ParseFail
          : j \in {SkipWs(s, i)}})

JSONparse(text) ==
    Only({IF v.ok /\ SkipWs(text, v.next) > Len(text) THEN v ELSE ParseFail
          : v \in {ParseValue(text, 1)}})

(***************************************************************************)
(* Objects: Object.keys, property read, typeof                             *)
(***************************************************************************)
Range(seq) == {seq[i] : i \in 1..Len(seq)}

\* the last position of header h in headers: a later assignment to the same
\* key of an object overwrites the earlier one
LastIndex(headers, h) ==
    CHOOSE i \in 1..Len(headers) :
        headers[i] = h /\ \A j \in (i + 1)..Len(headers) : headers[j] # h

\* a canonical array index: "0", "1", .. without sign or leading zero
IsIndexKey(k) == k # <<>> /\ AllDigits(k, 1, Len(k)) /\ (Len(k) = 1 \/ k[1] # "0")

IsNameKey(k) == ~IsIndexKey(k)

\* the numbers of the integer keys among keys
indexKeys(keys) ==
    Only({[i \in 1..Len(idx) |-> DigitsValue(idx[i], 1, Len(idx[i]))]
          : idx \in {SelectSeq(keys, IsIndexKey)}})

\* Object.keys(v): integer keys in ascending order, then the others in the
\* order of their creation
ObjectKeys(v) ==
    IF v.t = "arr" THEN [i \in 1..Len(v.items) |-> IntToStr(i - 1)]
    ELSE IF v.t = "obj"
    THEN Only({[i \in 1..Len(sorted) |-> IntToStr(sorted[i])] \o SelectSeq(v.keys, IsNameKey)
               : sorted \in {SortAscending(indexKeys(v.keys))}})
    ELSE <<>>

\* typeof v === "object"
TypeofObject(v) == v.t \in {"null", "arr", "obj"}

\* v[key]; reading a property of null or undefined throws a TypeError
ReadThrows(v) == v.t \in {"null", "undefined"}

LengthKey == <<"l", "e", "n", "g", "t", "h">>

Get(v, key) ==
    CASE v.t = "obj" ->
            IF \E i \in 1..Len(v.keys) : v.keys[i] = key
            THEN v.vals[CHOOSE i \in 1..Len(v.keys) : v.keys[i] = key]
            ELSE Undefined
      [] v.t = "arr" ->
            IF IsIndexKey(key) /\ DigitsValue(key, 1, Len(key)) < Len(v.items)
            THEN v.items[DigitsValue(key, 1, Len(key)) + 1]
            ELSE IF key = LengthKey THEN Num(Len(v.items), 0)
            ELSE Undefined
      [] v.t = "str" ->
            IF IsIndexKey(key) /\ DigitsValue(key, 1, Len(key)) < Len(v.s)
            THEN Str(<<v.s[DigitsValue(key, 1, Len(key)) + 1]>>)
            ELSE IF key = LengthKey THEN Num(Len(v.s), 0)
            ELSE Undefined
      [] OTHER -> Undefined

(***************************************************************************)
(* The analysers.  Each returns Returned(partial record) or Thrown.        *)
(***************************************************************************)
Thrown == [threw |-> TRUE]
Returned(r) == [threw |-> FALSE, value |-> r]

EmptyPartial ==
    [summary |-> None, rowCount |-> None, columnCount |-> None, headers |-> None,
     dataTypes |-> None, sampleData |-> None, statistics |-> None,
     recommendations |-> None]

Summary(text, args) == [text |-> text, args |-> args]

IsNonBlank(line) == trim(line) # <<>>

\* content.split("\n").filter((line) => line.trim() !== "")
NonBlankLines(content) == SelectSeq(split(content, "\n"), IsNonBlank)

NotNaN(n) == ~isNaN(n)

EmptyCsvSummary == "Empty CSV file detected."

\* line.split(",").map((v) => v.trim())
csvTokens(line) ==
    Only({[i \in 1..Len(parts) |-> trim(parts[i])] : parts \in {split(line, ",")}})

\* resultGenerator.ts 414
csvHeaders(lines) == csvTokens(lines[1])

\* faulty variant: the header line is counted as a row
csvRowCountInclusive(lines) == Len(lines)

\* resultGenerator.ts 416
csvRowCount(lines) == Len(lines) - 1

\* resultGenerator.ts 422-427: row[header] = values[index] || ""
csvSampleRow(headers, vals) ==
    [h \in Range(headers) |->
        Only({IF index <= Len(vals) THEN vals[index] ELSE <<>> : index \in {LastIndex(headers, h)}})]

\* faulty variant: lines.slice(1, 5)
csvSampleDataShort(lines, headers) ==
    Only({[r \in 1..Len(rows) |->
                Only({csvSampleRow(headers, vals) : vals \in {csvTokens(rows[r])}})]
          : rows \in {slice(lines, 1, 5)}})

\* resultGenerator.ts 419-428
csvSampleData(lines, headers) ==
    Only({[r \in 1..Len(rows) |->
                Only({csvSampleRow(headers, vals) : vals \in {csvTokens(rows[r])}})]
          : rows \in {slice(lines, 1, 6)}})

\* faulty variant: the column is read from the sampled rows, lines.slice(1, 6)
csvColumnSample(lines, index) ==
    [r \in 1..(IF Len(lines) - 1 < 5 THEN Len(lines) - 1 ELSE 5) |->
        Only({IF index <= Len(parts) THEN Str(trim(parts[index])) ELSE Undefined
              : parts \in {split(lines[r + 1], ",")}})]

\* resultGenerator.ts 433: lines.slice(1).map((line) => line.split(",")[index]?.trim())
csvColumn(lines, index) ==
    [r \in 1..(Len(lines) - 1) |->
        Only({IF index <= Len(parts) THEN Str(trim(parts[index])) ELSE Undefined
              : parts \in {split(lines[r + 1], ",")}})]

\* faulty variant: a column without a name is typed behind the last header
csvDataTypesTrailing(lines, headers) ==
    [h \in Range(headers) \cup {<<>>} |->
        IF h \in Range(headers)
        THEN Only({detectDataType(col) : col \in {csvColumn(lines, LastIndex(headers, h))}})
        ELSE "empty"]

\* resultGenerator.ts 431-435
csvDataTypes(lines, headers) ==
    [h \in Range(headers) |->
        Only({detectDataType(col) : col \in {csvColumn(lines, LastIndex(headers, h))}})]

\* resultGenerator.ts 440-445: the column's values through parseFloat, NaN dropped
csvNumbers(lines, index) ==
    Only({SelectSeq([i \in 1..Len(col) |-> parseFloat(col[i])], NotNaN)
          : col \in {csvColumn(lines, index)}})

\* faulty variant: statistics for every header, whatever its type
csvStatisticsAll(lines, headers, dataTypes) ==
    [h \in Range(headers) |->
        Only({calculateStatistics(nums) : nums \in {csvNumbers(lines, LastIndex(headers, h))}})]

\* resultGenerator.ts 438-448
csvStatistics(lines, headers, dataTypes) ==
    [h \in {k \in Range(headers) : dataTypes[k] = "number"} |->
        Only({calculateStatistics(nums) : nums \in {csvNumbers(lines, LastIndex(headers, h))}})]

\* faulty variant: the counts are left out
csvEmptyResultNoCounts ==
    [EmptyPartial EXCEPT !.summary = Some(Summary(EmptyCsvSummary, <<>>))]

\* resultGenerator.ts 405-411
csvEmptyResult ==
    [EmptyPartial EXCEPT !.summary = Some(Summary(EmptyCsvSummary, <<>>)),
                         !.rowCount = Some(0),
                         !.columnCount = Some(0)]

\* resultGenerator.ts 402-463
csvResult(lines, headers, dataTypes, rowCount, columnCount) ==
    Returned(
        [summary |-> Some(Summary(
                        "CSV file with {rowCount} rows and {columnCount} columns. Contains {N} numeric columns suitable for analysis.",
                        <<rowCount, columnCount, CountTypes(dataTypes, {"number"})>>)),
         rowCount |-> Some(rowCount),
         columnCount |-> Some(columnCount),
         headers |-> Some(headers),
         dataTypes |-> Some(dataTypes),
         sampleData |-> Some(csvSampleData(lines, headers)),
         statistics |-> Some(csvStatistics(lines, headers, dataTypes)),
         recommendations |-> Some(generateRecommendations(dataTypes, rowCount))])

\* resultGenerator.ts 402-463
analyzeCSV(content) ==
    Only({IF Len(lines) = 0 THEN Returned(csvEmptyResult)
          ELSE Only({Only({csvResult(lines, headers, dataTypes, csvRowCount(lines), Len(headers))
                           : dataTypes \in {csvDataTypes(lines, headers)}})
                     : headers \in {csvHeaders(lines)}})
          : lines \in {NonBlankLines(content)}})

InvalidJsonSummary == "Empty or invalid JSON file."

\* the rows the analyser walks: the elements of an array, or the single object
jsonRows(content) == IF content.t = "arr" THEN content.items ELSE <<content>>

\* resultGenerator.ts 491, 503
jsonHeaders(content) ==
    IF content.t = "arr"
    THEN (IF Len(content.items) > 0 /\ TypeofObject(content.items[1])
          THEN ObjectKeys(content.items[1]) ELSE <<>>)
    ELSE ObjectKeys(content)

\* faulty variant: the sample of a single object is left empty
jsonSampleDataArrayOnly(content) ==
    IF content.t = "arr" THEN slice(content.items, 0, 5) ELSE <<>>

\* resultGenerator.ts 488, 506
jsonSampleData(content) ==
    IF content.t = "arr" THEN slice(content.items, 0, 5) ELSE <<content>>

\* resultGenerator.ts 495-498, 508-510
jsonDataTypes(content, headers) ==
    [h \in Range(headers) |->
        Only({detectDataType(col) :
                col \in {[i \in 1..Len(jsonRows(content)) |-> Get(jsonRows(content)[i], h)]}})]

\* faulty variant: only the values that are numbers are taken, not the texts
\* of numbers
jsonStatisticsNumbersOnly(content, headers, dataTypes) ==
    [h \in {k \in Range(headers) : dataTypes[k] = "number"} |->
        Only({calculateStatistics(nums) :
                nums \in {SelectSeq([i \in 1..Len(jsonRows(content)) |->
                                        IF Get(jsonRows(content)[i], h).t = "num"
                                        THEN Get(jsonRows(content)[i], h) ELSE NaN],
                                    NotNaN)}})]

\* resultGenerator.ts 514-525
jsonStatistics(content, headers, dataTypes) ==
    [h \in {k \in Range(headers) : dataTypes[k] = "number"} |->
        Only({calculateStatistics(nums) :
                nums \in {SelectSeq([i \in 1..Len(jsonRows(content)) |->
                                        parseFloat(Get(jsonRows(content)[i], h))],
                                    NotNaN)}})]

jsonResult(content, headers, dataTypes, rowCount, columnCount) ==
    Returned(
        [summary |-> Some(Summary(
                        "JSON file with {rowCount} records and {columnCount} fields. Contains {N} numeric fields suitable for analysis.",
                        <<rowCount, columnCount, CountTypes(dataTypes, {"number"})>>)),
         rowCount |-> Some(rowCount),
         columnCount |-> Some(columnCount),
         headers |-> Some(headers),
         dataTypes |-> Some(dataTypes),
         sampleData |-> Some(jsonSampleData(content)),
         statistics |-> Some(jsonStatistics(content, headers, dataTypes)),
         recommendations |-> Some(generateRecommendations(dataTypes, rowCount))])

\* item[header] throws for a null element of an array whose first element
\* has keys
jsonAnalysis(content, headers) ==
    IF /\ content.t = "arr"
       /\ headers # <<>>
       /\ \E i \in 1..Len(content.items) : ReadThrows(content.items[i])
    THEN Thrown
    ELSE Only({jsonResult(content, headers, dataTypes, Len(jsonRows(content)), Len(headers))
               : dataTypes \in {jsonDataTypes(content, headers)}})

\* faulty variant: the record for a content that is no object has no
\* recommendation of its own
analyzeJSONSilent(content) ==
    IF content.t \notin {"arr", "obj"}
    THEN Returned([EmptyPartial EXCEPT !.summary = Some(Summary(InvalidJsonSummary, <<>>))])
    ELSE IF content.t = "arr" /\ Len(content.items) > 0 /\ ReadThrows(content.items[1])
    THEN Thrown
    ELSE Only({jsonAnalysis(content, headers) : headers \in {jsonHeaders(content)}})


\* resultGenerator.ts 468-540.  Object.keys(content[0]) throws for a null
\* first element.
analyzeJSON(content) ==
    IF content.t \notin {"arr", "obj"}
    THEN Returned([EmptyPartial EXCEPT
                      !.summary = Some(Summary(InvalidJsonSummary, <<>>)),
                      !.recommendations = Some(<<"Check the JSON format and try again",
                                                 "Ensure the file contains valid JSON data">>)])
    ELSE IF content.t = "arr" /\ Len(content.items) > 0 /\ ReadThrows(content.items[1])
    THEN Thrown
    ELSE Only({jsonAnalysis(content, headers) : headers \in {jsonHeaders(content)}})


WordCountKey == <<"w", "o", "r", "d", "C", "o", "u", "n", "t">>
CharCountKey == <<"c", "h", "a", "r", "C", "o", "u", "n", "t">>
AvgWordsPerLineKey == <<"a", "v", "g", "W", "o", "r", "d", "s", "P", "e", "r", "L", "i", "n", "e">>

\* content.split(/\s+/).filter((word) => word.trim() !== "").length
txtWordCount(content) ==
    Cardinality({i \in 1..Len(content) :
                    content[i] \notin WhiteSpace /\ (i = 1 \/ content[i - 1] \in WhiteSpace)})

\* resultGenerator.ts 553-556; every() of no line is true
txtIsTabular(lines) ==
    \A i \in 1..Len(lines) :
        CountChar(lines[i], "\t") > 0 /\ CountChar(lines[i], "\t") = CountChar(lines[1], "\t")

\* resultGenerator.ts 545-588.  lines[0].split("\t") throws when no line is left.
txtResult(content, lines, wordCount, isTabular) ==
    IF isTabular /\ Len(lines) = 0 THEN Thrown
    ELSE Returned(
        [EmptyPartial EXCEPT
            !.summary = Some(Summary(
                IF isTabular
                THEN "Text file with {lines} rows that appears to be tab-delimited. Contains approximately {wordCount} words."
                ELSE "Unstructured text file with {lines} lines and {wordCount} words.",
                <<Len(lines), wordCount>>)),
            !.rowCount = Some(Len(lines)),
            !.columnCount = IF isTabular THEN Some(Len(split(lines[1], "\t"))) ELSE None,
            !.recommendations = Some(
                IF isTabular
                THEN <<"Convert to CSV format for better analysis",
                       "Use text classification algorithms for content analysis",
                       "Consider natural language processing for text extraction">>
                ELSE <<"Use natural language processing algorithms",
                       "Consider sentiment analysis for text content",
                       "Text clustering may reveal patterns in the content">>),
            !.statistics = Some([k \in {WordCountKey, CharCountKey, AvgWordsPerLineKey} |->
                                    IF k = WordCountKey THEN Rat(wordCount, 1)
                                    ELSE IF k = CharCountKey THEN Rat(Len(content), 1)
                                    ELSE Rat(wordCount, IF Len(lines) = 0 THEN 1 ELSE Len(lines))])])

analyzeTXT(content) ==
    Only({txtResult(content, lines, wordCount, txtIsTabular(lines))
          : lines \in {NonBlankLines(content)}, wordCount \in {txtWordCount(content)}})

(***************************************************************************)
(* analyzeFile (resultGenerator.ts 294-397)                                *)
(***************************************************************************)
\* file.name.split(".").pop()?.toLowerCase() || ""
getFileType(name) ==
    Only({toLowerCase(parts[Len(parts)]) : parts \in {split(name, ".")}})

RECURSIVE FloorLog1024(_)
FloorLog1024(bytes) == IF bytes < 1024 THEN 0 ELSE 1 + FloorLog1024(bytes \div 1024)

RECURSIVE Pow1024(_)
Pow1024(i) == IF i = 0 THEN 1 ELSE 1024 * Pow1024(i - 1)

sizes == <<"Bytes", "KB", "MB", "GB">>

\* the size text of units * 1024^power bytes, a length beyond the integers
\* at hand being given as such a product: i is power + floor(log1024(units))
\* and bytes / 1024^i is units / 1024^floor(log1024(units))
formatScaled(units, power) ==
    IF units = 0 THEN [hundredths |-> 0, unit |-> "Bytes"]
    ELSE Only({[hundredths |-> (200 * units + Pow1024(j)) \div (2 * Pow1024(j)),
                unit |-> IF power + j + 1 <= Len(sizes) THEN sizes[power + j + 1]
                         ELSE "undefined"]
               : j \in {FloorLog1024(units)}})

\* the text is hundredths/100 followed by the unit; toFixed(2) rounds to the
\* nearest hundredth, sizes[i] is undefined beyond GB
formatFileSize(bytes) == formatScaled(bytes, 0)

Csv == <<"c", "s", "v">>
Json == <<"j", "s", "o", "n">>
Txt == <<"t", "x", "t">>
Xlsx == <<"x", "l", "s", "x">>

\* resultGenerator.ts 362-397: what the promise resolves with when the read
\* succeeds; a text that JSON.parse rejects becomes {}
readFileContent(f, fileType) ==
    IF fileType = Json
    THEN Only({IF parsed.ok THEN parsed.val ELSE EmptyObject : parsed \in {JSONparse(f.content)}})
    ELSE IF fileType \in {Csv, Txt} THEN Str(f.content)
    ELSE Null


\* { ...result, ...partial }
Merge(base, part) ==
    [summary |-> IF Len(part.summary) = 1 THEN part.summary[1] ELSE base.summary,
     fileType |-> base.fileType,
     fileSize |-> base.fileSize,
     recommendations |-> IF Len(part.recommendations) = 1 THEN part.recommendations[1]
                         ELSE base.recommendations,
     rowCount |-> part.rowCount,
     columnCount |-> part.columnCount,
     headers |-> part.headers,
     dataTypes |-> part.dataTypes,
     sampleData |-> part.sampleData,
     statistics |-> part.statistics]

\* faulty variant: the Excel branch reports counts of zero
analyzeSwitchCounting(fileType, content) ==
    CASE fileType = Csv -> analyzeCSV(content.s)
      [] fileType = Json -> analyzeJSON(content)
      [] fileType = Txt -> analyzeTXT(content.s)
      [] fileType = Xlsx ->
            Returned([EmptyPartial EXCEPT
                        !.summary = Some(Summary("Excel file detected. Basic metadata analysis available.", <<>>)),
                        !.rowCount = Some(0),
                        !.columnCount = Some(0),
                        !.recommendations = Some(
                            <<"Consider converting to CSV for more detailed analysis",
                              "Use Random Forest algorithm for classification tasks",
                              "Export as graph visualization for better insights">>)])
      [] OTHER ->
            Returned([EmptyPartial EXCEPT
                        !.summary = Some(Summary("Unsupported file format. Limited analysis available.", <<>>)),
                        !.recommendations = Some(<<"Convert to a supported format (CSV, JSON, TXT)">>)])

\* resultGenerator.ts 309-333: switch (fileType)
analyzeSwitch(fileType, content) ==
    CASE fileType = Csv -> analyzeCSV(content.s)
      [] fileType = Json -> analyzeJSON(content)
      [] fileType = Txt -> analyzeTXT(content.s)
      [] fileType = Xlsx ->
            Returned([EmptyPartial EXCEPT
                        !.summary = Some(Summary("Excel file detected. Basic metadata analysis available.", <<>>)),
                        !.recommendations = Some(
                            <<"Consider converting to CSV for more detailed analysis",
                              "Use Random Forest algorithm for classification tasks",
                              "Export as graph visualization for better insights">>)])
      [] OTHER ->
            Returned([EmptyPartial EXCEPT
                        !.summary = Some(Summary("Unsupported file format. Limited analysis available.", <<>>)),
                        !.recommendations = Some(<<"Convert to a supported format (CSV, JSON, TXT)">>)])

\* resultGenerator.ts 301-306
baseResult(f, fileType) ==
    [summary |-> Summary("", <<>>), fileType |-> fileType,
     fileSize |-> formatFileSize(Len(f.content)),
     recommendations |-> <<>>]

\* the body of analyzeFile after the read has delivered content
analyzeContent(f) ==
    Only({Only({Only({IF part.threw THEN Thrown
                      ELSE Returned(Merge(baseResult(f, fileType), part.value))
                      : part \in {analyzeSwitch(fileType, content)}})
                : content \in {readFileContent(f, fileType)}})
          : fileType \in {getFileType(f.name)}})

(***************************************************************************)
(* generateResults (resultGenerator.ts 9-272).  A text is given by the     *)
(* values set into its template.  The id and the timestamp of a result     *)
(* come from the clock and the values generateDataOutput adds to a row     *)
(* from Math.random(): the record keeps the keys added and leaves those    *)
(* values out.                                                             *)
(***************************************************************************)
toUpperCase(s) ==
    [i \in 1..Len(s) |->
        IF \E k \in 1..26 : LowerCase[k] = s[i]
        THEN UpperCase[CHOOSE k \in 1..26 : LowerCase[k] = s[i]]
        ELSE s[i]]

\* resultGenerator.ts 79-91
getAlgorithmName(algorithmId) ==
    CASE algorithmId = "linear-regression" -> "Linear Regression"
      [] algorithmId = "decision-tree" -> "Decision Tree"
      [] algorithmId = "k-means" -> "K-Means Clustering"
      [] algorithmId = "neural-network" -> "Neural Network"
      [] algorithmId = "random-forest" -> "Random Forest"
      [] algorithmId = "xgboost" -> "XGBoost"
      [] algorithmId = "time-series" -> "ARIMA"
      [] OTHER -> "Analysis"

\* an output configuration is [format, options]; format "" stands for a
\* missing format and options is a function of the option keys that are set
NoOptions == <<>>

\* outputConfig.options?.[key] || default, for an option that is a text
TextOption(outputConfig, key, default) ==
    IF key \in DOMAIN outputConfig.options /\ outputConfig.options[key] # ""
    THEN outputConfig.options[key] ELSE default

\* outputConfig.options?.[key] taken as a condition, for an option that is a boolean
FlagOption(outputConfig, key) ==
    key \in DOMAIN outputConfig.options /\ outputConfig.options[key] = TRUE

\* count || "unknown", count || "N/A": a missing count and the count 0 give the text
KnownCount(count) == IF count = Some(0) THEN None ELSE count

\* resultGenerator.ts 96-160
generateTextResult(fileAnalysis, algorithmId, outputConfig) ==
    CASE TextOption(outputConfig, "textFormat", "detailed") = "summary" ->
            [textFormat |-> "summary",
             algorithmName |-> getAlgorithmName(algorithmId),
             fileType |-> toUpperCase(fileAnalysis.fileType),
             records |-> KnownCount(fileAnalysis.rowCount)]
      [] TextOption(outputConfig, "textFormat", "detailed") = "technical" ->
            [textFormat |-> "technical",
             algorithmName |-> getAlgorithmName(algorithmId),
             fileType |-> toUpperCase(fileAnalysis.fileType),
             size |-> fileAnalysis.fileSize,
             records |-> KnownCount(fileAnalysis.rowCount),
             fields |-> KnownCount(fileAnalysis.columnCount),
             dataTypes |-> fileAnalysis.dataTypes,
             statistics |-> fileAnalysis.statistics]
      [] OTHER ->
            [textFormat |-> "detailed",
             algorithmName |-> getAlgorithmName(algorithmId),
             fileType |-> toUpperCase(fileAnalysis.fileType),
             records |-> KnownCount(fileAnalysis.rowCount),
             fields |-> KnownCount(fileAnalysis.columnCount),
             recommendations |->
                IF Len(fileAnalysis.recommendations) > 0 THEN fileAnalysis.recommendations
                ELSE <<"No specific recommendations available for this dataset">>]

\* stats?.[key] || 0: the statistics of a txt file are numbers, which have
\* no such key, and the empty record {} has none either
GraphValue(fileAnalysis, field, key) ==
    IF fileAnalysis.fileType = Txt \/ fileAnalysis.statistics[1][field] = None
    THEN Rat(0, 1)
    ELSE fileAnalysis.statistics[1][field][1][key]

\* resultGenerator.ts 165-222
generateGraphData(fileAnalysis, algorithmId, outputConfig) ==
    [chart |-> "bar",
     graphTitle |-> getAlgorithmName(algorithmId),
     labels |-> IF fileAnalysis.statistics = None THEN {}
                ELSE DOMAIN fileAnalysis.statistics[1],
     series |-> IF fileAnalysis.statistics = None THEN <<>>
                ELSE [name \in (IF DOMAIN fileAnalysis.statistics[1] = {} THEN {}
                                ELSE {"mean", "max", "min"}) |->
                        [field \in DOMAIN fileAnalysis.statistics[1] |->
                            GraphValue(fileAnalysis, field, name)]]]

\* the keys generateDataOutput adds to the copy of a row (246-261)
AddedKeys(algorithmId) ==
    CASE algorithmId = "linear-regression" -> {"predicted_value", "error"}
      [] algorithmId \in {"decision-tree", "random-forest"} -> {"classification", "confidence"}
      [] algorithmId = "k-means" -> {"cluster", "distance_to_centroid"}
      [] OTHER -> {}

\* resultGenerator.ts 227-272: every row of the output is a copy { ...item }
\* of a sample row with the keys of the algorithm added
generateDataOutput(fileAnalysis, algorithmId, outputConfig) ==
    [dataFormat |-> TextOption(outputConfig, "dataFormat", "json"),
     data |-> IF fileAnalysis.sampleData = None THEN <<>>
              ELSE [i \in 1..Len(fileAnalysis.sampleData[1]) |->
                       [copyOf |-> fileAnalysis.sampleData[1][i],
                        added |-> AddedKeys(algorithmId)]],
     metadata |-> [algorithm |-> getAlgorithmName(algorithmId),
                   rowCount |-> IF fileAnalysis.sampleData = None THEN 0
                                ELSE Len(fileAnalysis.sampleData[1])]]

\* outputConfig.format || "text"
formatOf(outputConfig) == IF outputConfig.format = "" THEN "text" ELSE outputConfig.format

\* faulty variant: the text result is left out when another format is asked for
generateResultsFormatOnly(fileAnalysis, algorithmId, outputConfig) ==
    IF fileAnalysis = None THEN <<>>
    ELSE (IF formatOf(outputConfig) = "text"
          THEN <<[type |-> "text", title |-> getAlgorithmName(algorithmId),
                  text |-> generateTextResult(fileAnalysis[1], algorithmId, outputConfig)]>>
          ELSE <<>>)
         \o (IF formatOf(outputConfig) = "graph" \/ FlagOption(outputConfig, "includeGraphs")
             THEN <<[type |-> "graph", title |-> getAlgorithmName(algorithmId),
                     graph |-> generateGraphData(fileAnalysis[1], algorithmId, outputConfig)]>>
             ELSE <<>>)
         \o (IF formatOf(outputConfig) = "data" \/ FlagOption(outputConfig, "includeData")
             THEN <<[type |-> "data", title |-> getAlgorithmName(algorithmId),
                     output |-> generateDataOutput(fileAnalysis[1], algorithmId, outputConfig)]>>
             ELSE <<>>)
         \o (IF formatOf(outputConfig) = "audio"
             THEN <<[type |-> "audio", title |-> getAlgorithmName(algorithmId),
                     placeholder |-> "audio-content-placeholder"]>>
             ELSE <<>>)
         \o (IF formatOf(outputConfig) = "video"
             THEN <<[type |-> "video", title |-> getAlgorithmName(algorithmId),
                     placeholder |-> "video-content-placeholder"]>>
             ELSE <<>>)

\* resultGenerator.ts 9-74; fileAnalysis is None for null
generateResults(fileAnalysis, algorithmId, outputConfig) ==
    IF fileAnalysis = None THEN <<>>
    ELSE <<[type |-> "text", title |-> getAlgorithmName(algorithmId),
            text |-> generateTextResult(fileAnalysis[1], algorithmId, outputConfig)]>>
         \o (IF formatOf(outputConfig) = "graph" \/ FlagOption(outputConfig, "includeGraphs")
             THEN <<[type |-> "graph", title |-> getAlgorithmName(algorithmId),
                     graph |-> generateGraphData(fileAnalysis[1], algorithmId, outputConfig)]>>
             ELSE <<>>)
         \o (IF formatOf(outputConfig) = "data" \/ FlagOption(outputConfig, "includeData")
             THEN <<[type |-> "data", title |-> getAlgorithmName(algorithmId),
                     output |-> generateDataOutput(fileAnalysis[1], algorithmId, outputConfig)]>>
             ELSE <<>>)
         \o (IF formatOf(outputConfig) = "audio"
             THEN <<[type |-> "audio", title |-> getAlgorithmName(algorithmId),
                     placeholder |-> "audio-content-placeholder"]>>
             ELSE <<>>)
         \o (IF formatOf(outputConfig) = "video"
             THEN <<[type |-> "video", title |-> getAlgorithmName(algorithmId),
                     placeholder |-> "video-content-placeholder"]>>
             ELSE <<>>)

(***************************************************************************)
(* The files, columns and type maps the operations are run on              *)
(***************************************************************************)
MaxLines == 2       \* lines of a text file drawn from Lines
MaxRows == 7        \* lines of a text file drawn from RowLines
MaxLate == 2        \* lines behind the fifth data row drawn from LateLines
MaxElements == 6    \* elements of a JSON array drawn from Elements
MaxValues == 3      \* values of a column handed to detectDataType
MaxHeaders == 5     \* keys of a dataTypes map handed to generateRecommendations
MaxNumbers == 4     \* numbers handed to calculateStatistics
MaxBytes == 1600    \* a byte length is units * 1024^power, units in 0..MaxBytes
MaxPower == 4       \* and power in 0..MaxPower
MaxUploads == 2     \* uploads in one session of the page
MaxRuns == 2        \* configurations submitted in one session of the page
MaxBatchFiles == 2  \* files selected or dropped at once
MaxBatches == 2     \* selections and drops in one session of the upload widget

Q == "\""

RECURSIVE JoinWith(_, _)
JoinWith(texts, sep) ==
    IF texts = <<>> THEN <<>>
    ELSE IF Len(texts) = 1 THEN texts[1]
    ELSE texts[1] \o <<sep>> \o JoinWith(Tail(texts), sep)

\* all sequences of at most max members of the sequence pool
Picks(pool, max) ==
    UNION {{[i \in 1..n |-> pool[idx[i]]] : idx \in [1..n -> 1..Len(pool)]} : n \in 0..max}

Lines ==
    << <<"a", ",", "b">>,
       <<"a", ",", " ", "a">>,
       <<"1", ",", "2">>,
       <<"-", "1", ".", "5", ",", "x", ",", "9">>,
       <<"7">>,
       <<>>,
       <<" ", "\r">>,
       <<"2", "0", "2", "0", "-", "1", "-", "5", ",", "Y", "e", "s">>,
       <<"1", "\t", "2">>,
       <<"x", " ", "y", "\t", "z">> >>

RowLines == << <<"3", ",", "n", "o">>, <<>> >>

\* lines behind a header line and five data rows "3,no"
LateLines == << <<"3", ",", "n", "o">>, <<"x", ",", "1">>, <<" ", ",">> >>

Elements ==
    << <<"{", Q, "a", Q, ":", "1", ",", Q, "b", Q, ":", Q, "n", "o", Q, "}">>,
       <<"{", Q, "a", Q, ":", Q, "2", Q, ",", Q, "c", Q, ":", "1", "}">>,
       <<"n", "u", "l", "l">> >>

JsonTexts ==
    { <<>>,
      <<"{", "}">>,
      <<"{", Q, "a", Q, ":", "1">>,
      <<"[", "1", ",", "]">>,
      <<"n", "u", "l", "l">>,
      <<"7">>,
      <<Q, "x", Q>>,
      <<"t", "r", "u", "e">>,
      <<"f", "a", "l", "s", "e">>,
      <<"0">>,
      <<Q, Q>>,
      <<"[", "7", "]">>,
      <<"[", "7", ",", "{", Q, "a", Q, ":", "1", "}", "]">>,
      <<"[", "{", Q, "a", Q, ":", "1", "}", ",", " ", "7", "]">>,
      <<"[", "[", "1", ",", "2", "]", "]">>,
      <<"[", "{", "}", ",", "n", "u", "l", "l", "]">>,
      <<"[", "{", Q, "a", Q, ":", "1", "}", ",", "{", "}", ",",
        "{", Q, "a", Q, ":", Q, Q, "}", "]">>,
      <<"{", Q, "a", Q, ":", "[", "5", "]", "}">>,
      <<"{", Q, "a", Q, ":", "{", Q, "b", Q, ":", "1", "}", "}">>,
      <<"{", Q, "b", Q, ":", "t", "r", "u", "e", ",", Q, "1", Q, ":", "0", ".", "5", ",",
        Q, "d", Q, ":", Q, "1", "/", "2", "/", "9", "9", Q, "}">> }

TextContents ==
    {JoinWith(ls, "\n") : ls \in Picks(Lines, MaxLines)}
    \cup {JoinWith(ls, "\n") : ls \in Picks(RowLines, MaxRows)}
    \cup {JoinWith([i \in 1..6 |-> RowLines[1]] \o ls, "\n") : ls \in Picks(LateLines, MaxLate)}

JsonContents ==
    {<<"[">> \o JoinWith(es, ",") \o <<"]">> : es \in Picks(Elements, MaxElements)}
    \cup JsonTexts

Name(ext) == <<"d", ".">> \o ext

\* names without a '.', with several, with a '.' at the end, in upper case
OtherNames ==
    { <<"c", "s", "v">>,
      <<"R", "E", "A", "D", "M", "E">>,
      <<"a", ".", "b", ".", "C", "S", "V">>,
      <<"d", ".">>,
      <<"x", ".", "T", "x", "t">> }

Files ==
    {[name |-> Name(ext), content |-> c] : ext \in {Csv, Txt}, c \in TextContents}
    \cup {[name |-> Name(Json), content |-> c] : c \in JsonContents}
    \cup {[name |-> Name(ext), content |-> c] :
            ext \in {Xlsx, <<"P", "D", "F">>}, c \in {<<>>, <<"a", ",", "b">>}}
    \cup {[name |-> n, content |-> c] : n \in OtherNames, c \in {<<>>, <<"a", ",", "b">>}}

DetectValues ==
    << Undefined, Null, Str(<<>>), Str(<<"0">>), Str(<<"1">>), Num(1, 0),
       Str(<<"-", "1", ".", "5">>), Bool(TRUE), Str(<<"Y", "e", "s">>),
       Str(<<"2", "0", "2", "0", "-", "1", "-", "5">>),
       Str(<<"1", "/", "2", "/", "9", "9">>),
       Str(<<"2", "0", "2", "0", "-", "1", "-", "5", "x">>),
       Str(<<"x", "1", "/", "2", "/", "9", "9">>),
       Str(<<"x">>) >>

HeaderName(i) == <<"h", DigitSeq[i + 1]>>

RowCounts == {50, 99, 100, 1000, 1001}

(***************************************************************************)
(* Specification of one analyzeFile call                                   *)
(***************************************************************************)

Idle ==
    /\ file = [name |-> <<>>, content |-> <<>>]
    /\ pc = "idle"
    /\ result = None
    /\ error = None

NoDetect == values = <<>> /\ dataType = None
NoRec == recInput = [dataTypes |-> <<>>, rowCount |-> 0] /\ recOutput = None

\* no call of calculateStatistics or formatFileSize on its own
NoPure == statInput = <<>> /\ statOutput = None /\ sizeInput = 0 /\ sizeOutput = None

\* the page as first rendered (page.tsx 21-41)
NoPage ==
    /\ page = [currentStep |-> 1, files |-> <<>>, uploadProgress |-> 0, isUploading |-> FALSE,
               fileAnalysis |-> None, selectedAlgorithm |-> "", outputConfig |-> None,
               processingStatus |-> "idle", results |-> <<>>]
    /\ upload = [count |-> 0, inFlight |-> FALSE, file |-> None, interval |-> FALSE]
    /\ timers = [started |-> 0, pending |-> {}]

NoPair == calls = [i \in 1..2 |-> [file |-> [name |-> <<>>, content |-> <<>>], pc |-> "idle",
                                   result |-> None, error |-> None]]
NoGen == genInput = None /\ genOutput = None

\* FileUploadArea as first rendered (part_000 29-31)
NoWidget ==
    widget = [files |-> <<>>, fileErrors |-> <<>>, forwarded |-> <<>>,
              selected |-> <<>>, batches |-> 0]

NoUi == NoPage /\ NoPair /\ NoGen /\ NoWidget

Init == Idle /\ NoDetect /\ NoRec /\ NoPure /\ NoUi

\* analyzeFile(f) is called: the FileReader starts reading (294-299, 391-395)
Upload(f) ==
    /\ pc = "idle"
    /\ file' = f
    /\ pc' = "reading"
    /\ UNCHANGED <<result, error, values, dataType, recInput, recOutput, pureCalls, uiVars>>

\* reader.onload: the content is delivered and the rest of analyzeFile runs;
\* an exception in an analyser rejects the promise of the async function
ReadLoad ==
    /\ pc = "reading"
    /\ \E outcome \in {analyzeContent(file)} :
           IF outcome.threw
           THEN /\ pc' = "rejected"
                /\ error' = Some("TypeError")
                /\ UNCHANGED result
           ELSE /\ pc' = "resolved"
                /\ result' = Some(outcome.value)
                /\ UNCHANGED error
    /\ UNCHANGED <<file, values, dataType, recInput, recOutput, pureCalls, uiVars>>

\* faulty variant: the failed read leaves the record built so far
ReadErrorPartial ==
    /\ pc = "reading"
    /\ pc' = "rejected"
    /\ error' = Some("Error reading file")
    /\ result' = Some(baseResult(file, getFileType(file.name)))
    /\ UNCHANGED <<file, values, dataType, recInput, recOutput, pureCalls, uiVars>>

\* reader.onerror (389)
ReadError ==
    /\ pc = "reading"
    /\ pc' = "rejected"
    /\ error' = Some("Error reading file")
    /\ UNCHANGED <<file, result, values, dataType, recInput, recOutput, pureCalls, uiVars>>

Next ==
    \/ \E f \in Files : Upload(f)
    \/ ReadLoad
    \/ ReadError

Spec == Init /\ [][Next]_vars

\* a FileReader that was started ends its read with a load or an error event
SpecFair == Spec /\ WF_vars(ReadLoad \/ ReadError)

(***************************************************************************)
(* Specification of detectDataType on its own                              *)
(***************************************************************************)
InitDetect ==
    /\ Idle /\ NoRec /\ NoPure /\ NoUi
    /\ values \in Picks(DetectValues, MaxValues)
    /\ dataType = None

Detect ==
    /\ dataType = None
    /\ dataType' = Some(detectDataType(values))
    /\ UNCHANGED <<file, pc, result, error, values, recInput, recOutput, pureCalls, uiVars>>

NextDetect == Detect

SpecDetect == InitDetect /\ [][NextDetect]_vars

(***************************************************************************)
(* Specification of generateRecommendations on its own                     *)
(***************************************************************************)
InitRec ==
    /\ Idle /\ NoDetect /\ NoPure /\ NoUi
    /\ \E n \in 0..MaxHeaders : \E types \in [1..n -> Tags] :
        \E rc \in RowCounts :
            recInput = [dataTypes |-> [h \in {HeaderName(i) : i \in 1..n} |->
                                         types[CHOOSE i \in 1..n : HeaderName(i) = h]],
                        rowCount |-> rc]
    /\ recOutput = None

Recommend ==
    /\ recOutput = None
    /\ recOutput' = Some(generateRecommendations(recInput.dataTypes, recInput.rowCount))
    /\ UNCHANGED <<file, pc, result, error, values, dataType, recInput, pureCalls, uiVars>>

NextRec == Recommend

SpecRec == InitRec /\ [][NextRec]_vars

(***************************************************************************)
(* Specification of calculateStatistics on its own                         *)
(***************************************************************************)
StatValues == <<-3, 0, 1, 2, 3, 4, 5>>

InitStats ==
    /\ Idle /\ NoDetect /\ NoRec /\ NoUi
    /\ \E xs \in Picks(StatValues, MaxNumbers) : statInput = [i \in 1..Len(xs) |-> Num(xs[i], 0)]
    /\ statOutput = None
    /\ sizeInput = 0 /\ sizeOutput = None

\* calculateStatistics(values): the sort is of the copy [...values], the
\* array handed in is left as it is
Calculate ==
    /\ statOutput = None
    /\ statOutput' = Some(calculateStatistics(statInput))
    /\ statInput' = statInput
    /\ UNCHANGED <<file, pc, result, error, values, dataType, recInput, recOutput,
                   sizeInput, sizeOutput, uiVars>>

NextStats == Calculate

SpecStats == InitStats /\ [][NextStats]_vars

(***************************************************************************)
(* Specification of formatFileSize on its own                              *)
(***************************************************************************)
InitSize ==
    /\ Idle /\ NoDetect /\ NoRec /\ NoUi
    /\ statInput = <<>> /\ statOutput = None
    /\ sizeInput \in [units : 0..MaxBytes, power : 0..MaxPower]
    /\ sizeOutput = None

Format ==
    /\ sizeOutput = None
    /\ sizeOutput' = Some(formatScaled(sizeInput.units, sizeInput.power))
    /\ UNCHANGED <<file, pc, result, error, values, dataType, recInput, recOutput,
                   statInput, statOutput, sizeInput, uiVars>>

NextSize == Format

SpecSize == InitSize /\ [][NextSize]_vars

(***************************************************************************)
(* Specification of two analyzeFile calls on independent files: each call  *)
(* has its own FileReader and its own locals (294-336, 362-397); the      *)
(* module resultGenerator.ts has no variable outside its functions         *)
(***************************************************************************)
PairFiles ==
    { [name |-> Name(Csv), content |-> JoinWith(<<Lines[1], Lines[3]>>, "\n")],
      [name |-> Name(Csv), content |-> <<>>],
      [name |-> Name(Json), content |-> <<"[", "n", "u", "l", "l", "]">>],
      [name |-> Name(Json), content |-> <<"{", Q, "a", Q, ":", "1", "}">>],
      [name |-> Name(Txt), content |-> Lines[10]],
      [name |-> Name(Xlsx), content |-> Lines[1]] }

InitPair ==
    /\ Idle /\ NoDetect /\ NoRec /\ NoPure /\ NoPage /\ NoGen /\ NoWidget
    /\ NoPair

\* the i-th call analyzeFile(f) starts its read
UploadCall(i, f) ==
    /\ calls[i].pc = "idle"
    /\ calls' = [calls EXCEPT ![i].file = f, ![i].pc = "reading"]
    /\ UNCHANGED <<file, pc, result, error, values, dataType, recInput, recOutput,
                   pureCalls, pageVars, genInput, genOutput, widget>>

\* faulty variant: the analysis works on a file kept in a variable of the
\* module, which the other call has overwritten
ReadLoadCallShared(i) ==
    /\ calls[i].pc = "reading"
    /\ \E outcome \in {analyzeContent(calls[3 - i].file)} :
           calls' = [calls EXCEPT ![i] =
                        IF outcome.threw
                        THEN [@ EXCEPT !.pc = "rejected", !.error = Some("TypeError")]
                        ELSE [@ EXCEPT !.pc = "resolved", !.result = Some(outcome.value)]]
    /\ UNCHANGED <<file, pc, result, error, values, dataType, recInput, recOutput,
                   pureCalls, pageVars, genInput, genOutput, widget>>

\* the read of the i-th call completes and its analysis runs to the end
ReadLoadCall(i) ==
    /\ calls[i].pc = "reading"
    /\ \E outcome \in {analyzeContent(calls[i].file)} :
           calls' = [calls EXCEPT ![i] =
                        IF outcome.threw
                        THEN [@ EXCEPT !.pc = "rejected", !.error = Some("TypeError")]
                        ELSE [@ EXCEPT !.pc = "resolved", !.result = Some(outcome.value)]]
    /\ UNCHANGED <<file, pc, result, error, values, dataType, recInput, recOutput,
                   pureCalls, pageVars, genInput, genOutput, widget>>

\* the read of the i-th call fails
ReadErrorCall(i) ==
    /\ calls[i].pc = "reading"
    /\ calls' = [calls EXCEPT ![i].pc = "rejected", ![i].error = Some("Error reading file")]
    /\ UNCHANGED <<file, pc, result, error, values, dataType, recInput, recOutput,
                   pureCalls, pageVars, genInput, genOutput, widget>>

NextPair ==
    \/ \E i \in 1..2 : \E f \in PairFiles : UploadCall(i, f)
    \/ \E i \in 1..2 : ReadLoadCall(i)
    \/ \E i \in 1..2 : ReadErrorCall(i)

SpecPair == InitPair /\ [][NextPair]_vars

(***************************************************************************)
(* Specification of generateResults on its own                             *)
(***************************************************************************)
Algorithms == {"linear-regression", "decision-tree", "k-means", "xgboost", ""}

Formats == {"", "text", "graph", "data", "audio", "video"}

OptionChoices ==
    << NoOptions,
       [includeGraphs |-> TRUE],
       [includeGraphs |-> FALSE],
       [includeData |-> TRUE],
       [includeGraphs |-> TRUE, includeData |-> TRUE],
       [textFormat |-> "summary"],
       [textFormat |-> "technical", includeData |-> FALSE],
       [dataFormat |-> "csv", includeGraphs |-> TRUE] >>

\* the records analyzeFile resolves with on PairFiles, and null
Analyses ==
    {None} \cup {Some(analyzeContent(f).value) : f \in {g \in PairFiles : ~analyzeContent(g).threw}}

InitGen ==
    /\ Idle /\ NoDetect /\ NoRec /\ NoPure /\ NoPage /\ NoPair /\ NoWidget
    /\ \E fa \in Analyses, a \in Algorithms, fmt \in Formats, o \in 1..Len(OptionChoices) :
          genInput = Some([fileAnalysis |-> fa, algorithmId |-> a,
                           outputConfig |-> [format |-> fmt, options |-> OptionChoices[o]]])
    /\ genOutput = None

\* generateResults reads fileAnalysis and builds new rows { ...item }
Generate ==
    /\ genOutput = None
    /\ genOutput' = Some(generateResults(genInput[1].fileAnalysis, genInput[1].algorithmId,
                                         genInput[1].outputConfig))
    /\ genInput' = genInput
    /\ UNCHANGED <<file, pc, result, error, values, dataType, recInput, recOutput,
                   pureCalls, calls, pageVars, widget>>

NextGen == Generate

SpecGen == InitGen /\ [][NextGen]_vars

(***************************************************************************)
(* Specification of the page (page.tsx).  page holds the useState values   *)
(* of Home.  An event handler runs to its end before the next event, and   *)
(* the handlers of an event are those of the last render, so a handler     *)
(* reads the current values; a setTimeout callback keeps the values of the *)
(* render in which it was created.  upload is the handleFilesUploaded call *)
(* in flight with its interval, and the number of calls so far; timers are *)
(* the pending setTimeout callbacks with the values they captured.         *)
(* processingStatus is never set to "error", so the Retry button of the    *)
(* ProcessingDashboard (82-86) is never shown and handleRetryProcessing    *)
(* (176-183) is never called.                                              *)
(***************************************************************************)
ProgressStep == 5
ProgressCap == 95
ProgressDone == 100

PageFiles ==
    { [name |-> Name(Csv), content |-> JoinWith(<<Lines[1], Lines[3]>>, "\n")],
      [name |-> Name(Json), content |-> <<"[", "n", "u", "l", "l", "]">>] }

\* what analyzeFile does on each file of PageFiles (page.tsx 66)
PageAnalyses == [f \in PageFiles |-> analyzeContent(f)]

PageAlgorithms == {"k-means"}

PageConfigs == {[format |-> "text", options |-> NoOptions]}

InitPage ==
    /\ Idle /\ NoDetect /\ NoRec /\ NoPure /\ NoPair /\ NoGen /\ NoWidget
    /\ NoPage

\* handleNavigateToStep (98-136): the page after the call
navigateToStep(p, step) ==
    IF step = 2 /\ p.fileAnalysis = None THEN p
    ELSE IF step = 3 /\ p.selectedAlgorithm = "" THEN p
    ELSE IF step = 5 /\ Len(p.results) = 0 THEN p
    ELSE [p EXCEPT !.processingStatus = IF step = 4 THEN "processing" ELSE @,
                   !.currentStep = step]

\* a click on one of the five step indicators (202-206)
ClickStep(step) ==
    /\ page' = navigateToStep(page, step)
    /\ UNCHANGED <<file, pc, result, error, values, dataType, recInput, recOutput,
                   pureCalls, calls, upload, timers, genInput, genOutput, widget>>

\* Previous Step (286-293)
ClickPrevious ==
    /\ page.currentStep > 1
    /\ page' = navigateToStep(page, page.currentStep - 1)
    /\ UNCHANGED <<file, pc, result, error, values, dataType, recInput, recOutput,
                   pureCalls, calls, upload, timers, genInput, genOutput, widget>>

\* Next Step (301-313), disabled on step 1 while no file is uploaded
ClickNext ==
    /\ page.currentStep < 5
    /\ ~(page.currentStep = 1 /\ Len(page.files) = 0)
    /\ page' = navigateToStep(page, page.currentStep + 1)
    /\ UNCHANGED <<file, pc, result, error, values, dataType, recInput, recOutput,
                   pureCalls, calls, upload, timers, genInput, genOutput, widget>>

\* Start New Analysis (295-299)
ClickStartNew ==
    /\ page.currentStep = 5
    /\ page' = navigateToStep(page, 1)
    /\ UNCHANGED <<file, pc, result, error, values, dataType, recInput, recOutput,
                   pureCalls, calls, upload, timers, genInput, genOutput, widget>>

\* handleFilesUploaded up to its await (44-66).  The upload area is shown on
\* step 1 only (230-236) and takes no file while isUploading (part_000 126, 142).
FilesUploaded(f) ==
    /\ page.currentStep = 1
    /\ ~page.isUploading
    /\ upload.count < MaxUploads
    /\ page' = [page EXCEPT !.files = <<f>>, !.isUploading = TRUE, !.uploadProgress = 0]
    /\ upload' = [count |-> upload.count + 1, inFlight |-> TRUE, file |-> Some(f),
                  interval |-> TRUE]
    /\ UNCHANGED <<file, pc, result, error, values, dataType, recInput, recOutput,
                   pureCalls, calls, timers, genInput, genOutput, widget>>

\* faulty variant: the tick stops at 100 instead of 95
IntervalTickLate ==
    /\ upload.interval
    /\ IF page.uploadProgress >= ProgressDone
       THEN /\ page' = [page EXCEPT !.uploadProgress = ProgressDone]
            /\ upload' = [upload EXCEPT !.interval = FALSE]
       ELSE /\ page' = [page EXCEPT !.uploadProgress = @ + ProgressStep]
            /\ UNCHANGED upload
    /\ UNCHANGED <<file, pc, result, error, values, dataType, recInput, recOutput,
                   pureCalls, calls, timers, genInput, genOutput, widget>>

\* a tick of the interval (53-62)
IntervalTick ==
    /\ upload.interval
    /\ IF page.uploadProgress >= ProgressCap
       THEN /\ page' = [page EXCEPT !.uploadProgress = ProgressCap]
            /\ upload' = [upload EXCEPT !.interval = FALSE]
       ELSE /\ page' = [page EXCEPT !.uploadProgress = @ + ProgressStep]
            /\ UNCHANGED upload
    /\ UNCHANGED <<file, pc, result, error, values, dataType, recInput, recOutput,
                   pureCalls, calls, timers, genInput, genOutput, widget>>

\* finally (83-88)
uploadFinished(p) == [p EXCEPT !.isUploading = FALSE, !.uploadProgress = ProgressDone]

\* the read completes: analyzeFile resolves (64-72) or throws (73-82), then
\* finally.  The record is tagged with the number of its upload, each call
\* of analyzeFile building a new object.
AnalysisLoad ==
    /\ upload.inFlight
    /\ \E outcome \in {PageAnalyses[upload.file[1]]} :
          page' = IF outcome.threw THEN uploadFinished(page)
                  ELSE uploadFinished([page EXCEPT !.fileAnalysis =
                          Some([upload |-> upload.count, record |-> outcome.value])])
    /\ upload' = [upload EXCEPT !.inFlight = FALSE, !.interval = FALSE]
    /\ UNCHANGED <<file, pc, result, error, values, dataType, recInput, recOutput,
                   pureCalls, calls, timers, genInput, genOutput, widget>>

\* the read fails: catch (73-82), then finally
AnalysisReadError ==
    /\ upload.inFlight
    /\ page' = uploadFinished(page)
    /\ upload' = [upload EXCEPT !.inFlight = FALSE, !.interval = FALSE]
    /\ UNCHANGED <<file, pc, result, error, values, dataType, recInput, recOutput,
                   pureCalls, calls, timers, genInput, genOutput, widget>>

\* handleContinueToAlgorithms (93-95), its button shown as in 238-243
ContinueToAlgorithms ==
    /\ page.currentStep = 1
    /\ page.fileAnalysis # None
    /\ ~page.isUploading
    /\ page' = [page EXCEPT !.currentStep = 2]
    /\ UNCHANGED <<file, pc, result, error, values, dataType, recInput, recOutput,
                   pureCalls, calls, upload, timers, genInput, genOutput, widget>>

\* handleAlgorithmSelect (139-142), the panel shown on step 2
AlgorithmSelect(a) ==
    /\ page.currentStep = 2
    /\ page' = [page EXCEPT !.selectedAlgorithm = a, !.currentStep = 3]
    /\ UNCHANGED <<file, pc, result, error, values, dataType, recInput, recOutput,
                   pureCalls, calls, upload, timers, genInput, genOutput, widget>>

\* handleOutputConfig (145-167), the panel shown on step 3.  The callback
\* keeps fileAnalysis and selectedAlgorithm of this render.  cancelled notes
\* that handleCancelProcessing ran while the callback was pending; the
\* program keeps no such note.
OutputConfig(config) ==
    /\ page.currentStep = 3
    /\ timers.started < MaxRuns
    /\ page' = [page EXCEPT !.outputConfig = Some(config), !.currentStep = 4,
                            !.processingStatus = "processing"]
    /\ timers' = [started |-> timers.started + 1,
                  pending |-> timers.pending \cup
                      {[run |-> timers.started + 1, fileAnalysis |-> page.fileAnalysis,
                        algorithmId |-> page.selectedAlgorithm, config |-> config,
                        cancelled |-> FALSE]}]
    /\ UNCHANGED <<file, pc, result, error, values, dataType, recInput, recOutput,
                   pureCalls, calls, upload, genInput, genOutput, widget>>

\* the record a captured fileAnalysis stands for
recordOf(fileAnalysis) == IF fileAnalysis = None THEN None ELSE Some(fileAnalysis[1].record)

\* the setTimeout callback of handleOutputConfig runs (156-166)
TimerFires(run) ==
    /\ \E t \in timers.pending :
          /\ t.run = run
          /\ page' = [page EXCEPT !.results = generateResults(recordOf(t.fileAnalysis),
                                                              t.algorithmId, t.config),
                                  !.processingStatus = "completed",
                                  !.currentStep = 5]
          /\ timers' = [timers EXCEPT !.pending = @ \ {t}]
    /\ UNCHANGED <<file, pc, result, error, values, dataType, recInput, recOutput,
                   pureCalls, calls, upload, genInput, genOutput, widget>>

\* handleCancelProcessing (170-173), its button shown on step 4 while
\* processing (267-275, ProcessingDashboard 77-81); no timeout is cleared
CancelProcessing ==
    /\ page.currentStep = 4
    /\ page.processingStatus = "processing"
    /\ page' = [page EXCEPT !.processingStatus = "idle", !.currentStep = 3]
    /\ timers' = [timers EXCEPT !.pending = {[t EXCEPT !.cancelled = TRUE] : t \in @}]
    /\ UNCHANGED <<file, pc, result, error, values, dataType, recInput, recOutput,
                   pureCalls, calls, upload, genInput, genOutput, widget>>

NextPage ==
    \/ \E step \in 1..5 : ClickStep(step)
    \/ ClickPrevious
    \/ ClickNext
    \/ ClickStartNew
    \/ \E f \in PageFiles : FilesUploaded(f)
    \/ IntervalTick
    \/ AnalysisLoad
    \/ AnalysisReadError
    \/ ContinueToAlgorithms
    \/ \E a \in PageAlgorithms : AlgorithmSelect(a)
    \/ \E config \in PageConfigs : OutputConfig(config)
    \/ \E run \in 1..MaxRuns : TimerFires(run)
    \/ CancelProcessing

SpecPage == InitPage /\ [][NextPage]_vars

\* a pending setTimeout callback runs in the end
SpecPageFair == SpecPage /\ WF_vars(\E run \in 1..MaxRuns : TimerFires(run))

(***************************************************************************)
(* Specification of the upload widget FileUploadArea (part_000) with the   *)
(* default acceptedFileTypes and maxFileSize, as the page renders it.      *)
(* widget.files and widget.fileErrors are its useState values, forwarded   *)
(* the lists handed to onFilesUploaded, selected the list handed to the    *)
(* last handleFileChange and batches the number of these calls.            *)
(***************************************************************************)
acceptedFileTypes ==
    << <<".", "c", "s", "v">>, <<".", "x", "l", "s", "x">>,
       <<".", "j", "s", "o", "n">>, <<".", "t", "x", "t">> >>

maxFileSize == 50

InvalidType == "Invalid file type. Accepted types: .csv, .xlsx, .json, .txt"
TooLarge == "File too large. Maximum size: 50MB"

\* the files a batch is made of: name and size in bytes
WidgetFiles ==
    << [name |-> <<"d", ".", "c", "s", "v">>, size |-> 0],
       [name |-> <<"D", ".", "T", "X", "T">>, size |-> maxFileSize * 1024 * 1024],
       [name |-> <<"d", ".", "j", "s", "o", "n">>, size |-> maxFileSize * 1024 * 1024 + 1],
       [name |-> <<"d", ".", "p", "d", "f">>, size |-> 7],
       [name |-> <<"c", "s", "v">>, size |-> 7] >>

\* "." + file.name.split(".").pop()?.toLowerCase()
fileExtension(name) ==
    Only({<<".">> \o toLowerCase(parts[Len(parts)]) : parts \in {split(name, ".")}})

\* part_000 34-50: the error text, None for null
validateFile(f) ==
    IF Len(acceptedFileTypes) > 0 /\ fileExtension(f.name) \notin Range(acceptedFileTypes)
    THEN Some(InvalidType)
    ELSE IF f.size > maxFileSize * 1024 * 1024 THEN Some(TooLarge)
    ELSE None

IsValid(f) == validateFile(f) = None
IsInvalid(f) == validateFile(f) # None

\* newErrors: the error of the last file of each rejected name
newErrorsOf(rejected) ==
    [n \in {rejected[i].name : i \in 1..Len(rejected)} |->
        validateFile(rejected[CHOOSE i \in 1..Len(rejected) :
                        rejected[i].name = n
                        /\ \A j \in (i + 1)..Len(rejected) : rejected[j].name # n])[1]]

InitWidget ==
    /\ Idle /\ NoDetect /\ NoRec /\ NoPure /\ NoPage /\ NoPair /\ NoGen
    /\ NoWidget

\* handleFileChange (52-81) on the files selected or dropped
FileChange(selectedFiles) ==
    /\ widget.batches < MaxBatches
    /\ \E newFiles \in {SelectSeq(selectedFiles, IsValid)} :
       \E rejected \in {SelectSeq(selectedFiles, IsInvalid)} :
          widget' = [files |-> widget.files \o newFiles,
                     fileErrors |-> IF Len(rejected) > 0 THEN newErrorsOf(rejected)
                                    ELSE widget.fileErrors,
                     forwarded |-> IF Len(newFiles) > 0 THEN Append(widget.forwarded, newFiles)
                                   ELSE widget.forwarded,
                     selected |-> selectedFiles,
                     batches |-> widget.batches + 1]
    /\ UNCHANGED <<file, pc, result, error, values, dataType, recInput, recOutput,
                   pureCalls, calls, pageVars, genInput, genOutput>>

\* clearErrors (111-113), its button shown while there is an error (224-238)
ClearErrors ==
    /\ DOMAIN widget.fileErrors # {}
    /\ widget' = [widget EXCEPT !.fileErrors = <<>>]
    /\ UNCHANGED <<file, pc, result, error, values, dataType, recInput, recOutput,
                   pureCalls, calls, pageVars, genInput, genOutput>>

\* removeFile(index) (107-109)
RemoveFile(index) ==
    /\ index \in 1..Len(widget.files)
    /\ widget' = [widget EXCEPT !.files = SubSeq(@, 1, index - 1) \o SubSeq(@, index + 1, Len(@))]
    /\ UNCHANGED <<file, pc, result, error, values, dataType, recInput, recOutput,
                   pureCalls, calls, pageVars, genInput, genOutput>>

NextWidget ==
    \/ \E selectedFiles \in Picks(WidgetFiles, MaxBatchFiles) : FileChange(selectedFiles)
    \/ ClearErrors
    \/ \E index \in 1..(MaxBatchFiles * MaxBatches) : RemoveFile(index)

SpecWidget == InitWidget /\ [][NextWidget]_vars

(***************************************************************************)
(* Properties                                                              *)
(***************************************************************************)
Resolved == pc = "resolved"
IsType(ext) == getFileType(file.name) = ext
Min(a, b) == IF a < b THEN a ELSE b

\* the text has no character other than white space
IsBlank(text) == \A i \in 1..Len(text) : text[i] \in WhiteSpace

\* the lines of the file, in order, that have a character other than white space
SourceLines ==
    LET HasInk(line) == ~IsBlank(line)
    IN  Only({SelectSeq(all, HasInk) : all \in {split(file.content, "\n")}})

\* C1: a call whose read succeeded resolves with a record, whatever the
\* content: the only rejection is the one of a failed read.
C1_RejectsOnlyOnReadFailure ==
    pc = "rejected" => error = Some("Error reading file")

\* C2: a json file whose text does not parse resolves with the summary
\* "Empty or invalid JSON file." and without rowCount and columnCount.
C2_MalformedJsonIsInvalid ==
    (Resolved /\ IsType(Json) /\ ~JSONparse(file.content).ok)
        => /\ result[1].summary.text = InvalidJsonSummary
           /\ result[1].rowCount = None
           /\ result[1].columnCount = None

\* C3: detectDataType returns one tag, the first that matches in the order
\* number, date, boolean, string over the values that are not undefined, null
\* or ""; it returns empty exactly when no value remains; a column of
\* literal 0/1 is number and not boolean.
C3_FirstMatchPrecedence ==
    dataType # None =>
        LET tag == dataType[1]
            kept == {i \in 1..Len(values) : IsNonEmpty(values[i])}
            allNumber == \A i \in kept : IsNumberLike(values[i])
            allDate == \A i \in kept : datePattern(ToStr(values[i]))
            allBoolean == \A i \in kept : IsBooleanWord(values[i])
        IN  /\ tag \in Tags
            /\ (tag = "empty") <=> (kept = {})
            /\ kept # {} =>
                 /\ (tag = "number") <=> allNumber
                 /\ (tag = "date") <=> (~allNumber /\ allDate)
                 /\ (tag = "boolean") <=> (~allNumber /\ ~allDate /\ allBoolean)
                 /\ (tag = "string") <=> (~allNumber /\ ~allDate /\ ~allBoolean)
            /\ (kept # {} /\ \A i \in kept : ToStr(values[i]) \in {<<"0">>, <<"1">>})
                 => tag = "number"

C3_ZeroOneColumn ==
    /\ dataType = Some("number")
    /\ Len(values) >= 2
    /\ \E i \in 1..Len(values) : ToStr(values[i]) = <<"0">>
    /\ \E i \in 1..Len(values) : ToStr(values[i]) = <<"1">>
    /\ \A i \in 1..Len(values) : ToStr(values[i]) \in {<<"0">>, <<"1">>}

\* the whole text is YYYY sep M sep D, or M sep D sep Y
IsWholeDate(s) ==
    \/ \E a \in 1..2, b \in 1..2 :
        /\ Len(s) = 6 + a + b
        /\ AllDigits(s, 1, 4) /\ IsDateSep(s[5])
        /\ AllDigits(s, 6, 5 + a) /\ IsDateSep(s[6 + a])
        /\ AllDigits(s, 7 + a, Len(s))
    \/ \E a \in 1..2, b \in 1..2, c \in 2..4 :
        /\ Len(s) = a + b + c + 2
        /\ AllDigits(s, 1, a) /\ IsDateSep(s[a + 1])
        /\ AllDigits(s, a + 2, a + b + 1) /\ IsDateSep(s[a + b + 2])
        /\ AllDigits(s, a + b + 3, Len(s))

\* C4: a column is tagged date only if every non-empty value is, as a whole
\* text, one of the two date shapes.
C4_DateIsWholeStringMatch ==
    dataType = Some("date") =>
        \A i \in 1..Len(values) :
            IsNonEmpty(values[i]) => IsWholeDate(ToStr(values[i]))

\* the rule of section 4.7 a recommendation text belongs to
RuleOf(text) ==
    CASE text = RandomForest -> 1
      [] text = PCA -> 2
      [] text = DecisionTree -> 3
      [] text = TimeSeries -> 4
      [] text \in {XGBoost, KNN} -> 5
      [] text \in {GraphVisualization, BarCharts} -> 6
      [] text = PieCharts -> 7
      [] OTHER -> 0

\* C5: generateRecommendations returns the texts of the rules that hold, in
\* rule order, at most one per rule; XGBoost iff rowCount > 1000, KNN iff
\* rowCount < 100; graph iff numeric > 3, bar/line iff 1 <= numeric <= 3.
C5_RulesInOrder ==
    recOutput # None =>
        LET out == recOutput[1]
            types == recInput.dataTypes
            rowCount == recInput.rowCount
            numeric == Cardinality({h \in DOMAIN types : types[h] = "number"})
            categorical == Cardinality({h \in DOMAIN types : types[h] \in {"string", "boolean"}})
            date == Cardinality({h \in DOMAIN types : types[h] = "date"})
            Has(text) == \E i \in 1..Len(out) : out[i] = text
        IN  /\ \A i \in 1..Len(out) : RuleOf(out[i]) \in 1..7
            /\ \A i \in 1..(Len(out) - 1) : RuleOf(out[i]) < RuleOf(out[i + 1])
            /\ Has(RandomForest) <=> (numeric > 0 /\ categorical > 0)
            /\ Has(PCA) <=> numeric > 3
            /\ Has(DecisionTree) <=> categorical > numeric
            /\ Has(TimeSeries) <=> date > 0
            /\ Has(XGBoost) <=> rowCount > 1000
            /\ Has(KNN) <=> rowCount < 100
            /\ Has(GraphVisualization) <=> numeric > 3
            /\ Has(BarCharts) <=> (numeric >= 1 /\ numeric <= 3)
            /\ Has(PieCharts) <=> categorical > 0
            /\ (numeric = 4 /\ categorical = 1 /\ date = 0 /\ rowCount = 50)
                 => out = <<RandomForest, PCA, KNN, GraphVisualization, PieCharts>>

C5_FourNumbersOneString ==
    /\ recOutput = Some(<<RandomForest, PCA, KNN, GraphVisualization, PieCharts>>)
    /\ recInput.rowCount = 50
    /\ Cardinality({h \in DOMAIN recInput.dataTypes : recInput.dataTypes[h] = "number"}) = 4
    /\ Cardinality({h \in DOMAIN recInput.dataTypes : recInput.dataTypes[h] = "string"}) = 1

\* C6 as stated: in every returned record, of every file type, each key of
\* statistics is a header whose dataTypes tag is number.
C6_StatisticsKeysAreNumberHeaders ==
    (Resolved /\ result[1].statistics # None) =>
        /\ result[1].dataTypes # None
        /\ \A k \in DOMAIN result[1].statistics[1] :
              /\ k \in DOMAIN result[1].dataTypes[1]
              /\ result[1].dataTypes[1][k] = "number"

\* C6 amended: that holds of the records of every file type but txt; the
\* record of a txt file has no dataTypes and its statistics keys are
\* wordCount, charCount and avgWordsPerLine.
C6_StatisticsKeysByType ==
    (Resolved /\ result[1].statistics # None) =>
        IF IsType(Txt)
        THEN /\ result[1].dataTypes = None
             /\ DOMAIN result[1].statistics[1]
                  = {WordCountKey, CharCountKey, AvgWordsPerLineKey}
        ELSE /\ result[1].dataTypes # None
             /\ \A k \in DOMAIN result[1].statistics[1] :
                   /\ k \in DOMAIN result[1].dataTypes[1]
                   /\ result[1].dataTypes[1][k] = "number"

C6_NumberAndOtherColumn ==
    /\ Resolved /\ IsType(Csv)
    /\ result[1].statistics # None
    /\ DOMAIN result[1].statistics[1] # {}
    /\ DOMAIN result[1].statistics[1] # DOMAIN result[1].dataTypes[1]

C8_SampleIsFirstFiveRows ==
    (Resolved /\ result[1].sampleData # None) =>
        LET sample == result[1].sampleData[1]
        IN  /\ result[1].rowCount # None
            /\ Len(sample) = Min(5, result[1].rowCount[1])
            /\ IsType(Csv) =>
                 \A r \in 1..Len(sample) :
                    LET tokens == csvTokens(SourceLines[r + 1])
                        names == csvTokens(SourceLines[1])
                    IN  \A i \in 1..Len(names) :
                            (\A j \in (i + 1)..Len(names) : names[j] # names[i])
                                => sample[r][names[i]]
                                     = IF i <= Len(tokens) THEN tokens[i] ELSE <<>>
            /\ (IsType(Json) /\ JSONparse(file.content).ok) =>
                 LET parsed == JSONparse(file.content).val
                 IN  IF parsed.t = "arr"
                     THEN \A r \in 1..Len(sample) : sample[r] = parsed.items[r]
                     ELSE sample = <<parsed>>

C8_SixDataRows ==
    /\ Resolved /\ IsType(Csv)
    /\ result[1].rowCount = Some(6)
    /\ Len(result[1].sampleData[1]) = 5

\* C9: for a CSV text with a non-blank line, columnCount is the number of
\* comma-separated tokens of the first non-blank line and rowCount is the
\* number of non-blank lines less one, which is not negative.
C9_CsvCounts ==
    (Resolved /\ IsType(Csv) /\ Len(SourceLines) > 0) =>
        /\ result[1].columnCount = Some(CountChar(SourceLines[1], ",") + 1)
        /\ result[1].rowCount = Some(Len(SourceLines) - 1)
        /\ result[1].rowCount[1] >= 0

C9_BlankLinesSkipped ==
    /\ Resolved /\ IsType(Csv)
    /\ Len(split(file.content, "\n")) > Len(SourceLines)
    /\ IsBlank(split(file.content, "\n")[1])
    /\ result[1].rowCount = Some(1)
    /\ result[1].columnCount = Some(2)

\* C10: a csv file whose text is empty or blank yields the summary "Empty CSV
\* file detected.", rowCount 0, columnCount 0, no headers, dataTypes,
\* sampleData or statistics, and no recommendation.
C10_EmptyCsv ==
    (Resolved /\ IsType(Csv) /\ IsBlank(file.content)) =>
        /\ result[1].summary = Summary(EmptyCsvSummary, <<>>)
        /\ result[1].rowCount = Some(0)
        /\ result[1].columnCount = Some(0)
        /\ result[1].headers = None
        /\ result[1].dataTypes = None
        /\ result[1].sampleData = None
        /\ result[1].statistics = None
        /\ result[1].recommendations = <<>>

C10_BlankLinesOnly ==
    /\ Resolved /\ IsType(Csv)
    /\ Len(file.content) > 1
    /\ IsBlank(file.content)

\* the characters of the name after its last '.', none for a name without '.'
ExtensionOf(name) ==
    IF CountChar(name, ".") = 0 THEN <<>>
    ELSE SubSeq(name,
                1 + (CHOOSE i \in 1..Len(name) :
                        name[i] = "." /\ \A j \in (i + 1)..Len(name) : name[j] # "."),
                Len(name))

\* C11: the fileType of a returned record is the lower-cased text after the
\* last '.' of the file name, the empty text for a name without '.', and a
\* file whose name has no '.' gets the unsupported-format record.
C11_ExtensionAfterLastDot ==
    Resolved =>
        /\ result[1].fileType = toLowerCase(ExtensionOf(file.name))
        /\ CountChar(file.name, ".") = 0 =>
              /\ result[1].summary.text = "Unsupported file format. Limited analysis available."
              /\ result[1].rowCount = None

Settled == pc \in {"resolved", "rejected"}

\* C12: a failed read rejects the call and leaves no record; the read is
\* started once per call and never again; a call settles, settles once, and
\* is never both resolved and rejected.
C12_FailedReadRejectsOnce ==
    /\ [](error = Some("Error reading file") => (pc = "rejected" /\ result = None))
    /\ []((result # None <=> pc = "resolved") /\ (error # None <=> pc = "rejected"))
    /\ [][pc' = "reading" => pc = "idle"]_vars
    /\ [][~Settled]_vars
    /\ (pc = "reading" ~> Settled)

C12_ReadFailedOnCsv ==
    /\ pc = "rejected"
    /\ error = Some("Error reading file")
    /\ result = None
    /\ IsType(Csv)
    /\ file.content # <<>>

\* C13: a call for extension xlsx returns the fixed Excel summary, the three
\* fixed recommendations, fileType and fileSize and nothing else; a call for
\* an extension other than csv, json, txt and xlsx returns the fixed
\* unsupported-format summary, its one recommendation, fileType and fileSize
\* and nothing else.  Of the file only its name and its length enter the record.
C13_FixedRecords ==
    (Resolved /\ ~IsType(Csv) /\ ~IsType(Json) /\ ~IsType(Txt)) =>
        /\ result[1].fileType = getFileType(file.name)
        /\ result[1].fileSize = formatFileSize(Len(file.content))
        /\ result[1].rowCount = None
        /\ result[1].columnCount = None
        /\ result[1].headers = None
        /\ result[1].dataTypes = None
        /\ result[1].sampleData = None
        /\ result[1].statistics = None
        /\ IF IsType(Xlsx)
           THEN /\ result[1].summary
                     = Summary("Excel file detected. Basic metadata analysis available.", <<>>)
                /\ result[1].recommendations
                     = <<"Consider converting to CSV for more detailed analysis",
                         "Use Random Forest algorithm for classification tasks",
                         "Export as graph visualization for better insights">>
           ELSE /\ result[1].summary
                     = Summary("Unsupported file format. Limited analysis available.", <<>>)
                /\ result[1].recommendations
                     = <<"Convert to a supported format (CSV, JSON, TXT)">>

C13_ExcelWithContent ==
    /\ Resolved /\ IsType(Xlsx)
    /\ file.content # <<>>
    /\ result[1].summary.text = "Excel file detected. Basic metadata analysis available."
    /\ Len(result[1].recommendations) = 3

\* C14: a json file whose text parses to null, a number, a string or a
\* boolean yields the summary "Empty or invalid JSON file.", the fixed two
\* recommendations and no rowCount, columnCount, headers, dataTypes,
\* sampleData or statistics.
C14_NonObjectJsonIsInvalid ==
    \A parsed \in {JSONparse(file.content)} :
        (Resolved /\ IsType(Json) /\ parsed.ok /\ parsed.val.t \in {"null", "num", "str", "bool"}) =>
            /\ result[1].summary = Summary(InvalidJsonSummary, <<>>)
            /\ result[1].recommendations = <<"Check the JSON format and try again",
                                             "Ensure the file contains valid JSON data">>
            /\ result[1].rowCount = None
            /\ result[1].columnCount = None
            /\ result[1].headers = None
            /\ result[1].dataTypes = None
            /\ result[1].sampleData = None
            /\ result[1].statistics = None

C14_NullContent ==
    /\ Resolved /\ IsType(Json)
    /\ file.content = <<"n", "u", "l", "l">>
    /\ result[1].summary.text = InvalidJsonSummary

\* the values at key h in all elements, undefined where the key is missing
KeyValues(items, h) == [i \in 1..Len(items) |-> IF items[i].t = "obj" THEN Get(items[i], h) ELSE Undefined]

\* C15: for every JSON array the call returns rowCount = the array length;
\* when element 0 is an object, headers are its own keys in declaration
\* order, columnCount is their number, dataTypes has no other key, and each
\* header's type is inferred over the values at that key in all elements, a
\* missing key counting as an empty value.
C15_ArrayRowsAndHeaders ==
    \A parsed \in {JSONparse(file.content)} :
        (/\ Settled
         /\ error # Some("Error reading file")
         /\ IsType(Json)
         /\ parsed.ok
         /\ parsed.val.t = "arr")
        => /\ Resolved
           /\ result[1].rowCount = Some(Len(parsed.val.items))
           /\ (Len(parsed.val.items) > 0 /\ parsed.val.items[1].t = "obj")
              => /\ result[1].headers = Some(parsed.val.items[1].keys)
                 /\ result[1].columnCount = Some(Len(parsed.val.items[1].keys))
                 /\ DOMAIN result[1].dataTypes[1] = Range(parsed.val.items[1].keys)
                 /\ \A h \in Range(parsed.val.items[1].keys) :
                        result[1].dataTypes[1][h] = detectDataType(KeyValues(parsed.val.items, h))

\* C16: for a JSON content that is a single object, not an array, headers
\* are the object's own keys, columnCount their number, rowCount 1,
\* sampleData the one-element list of that object, and each header's type
\* is inferred from its single value.
C16_SingleObject ==
    \A parsed \in {JSONparse(file.content)} :
        (Settled /\ error # Some("Error reading file") /\ IsType(Json) /\ parsed.ok /\ parsed.val.t = "obj")
        => /\ Resolved
           /\ Range(result[1].headers[1]) = Range(parsed.val.keys)
           /\ Len(result[1].headers[1]) = Len(parsed.val.keys)
           /\ result[1].columnCount = Some(Len(parsed.val.keys))
           /\ result[1].rowCount = Some(1)
           /\ result[1].sampleData = Some(<<parsed.val>>)
           /\ DOMAIN result[1].dataTypes[1] = Range(parsed.val.keys)
           /\ \A h \in Range(parsed.val.keys) :
                  result[1].dataTypes[1][h] = detectDataType(<<Get(parsed.val, h)>>)

\* an object with three keys of three types, one of them an integer key
C16_ThreeKeys ==
    /\ Resolved
    /\ IsType(Json)
    /\ result[1].rowCount = Some(1)
    /\ result[1].headers = Some(<< <<"1">>, <<"b">>, <<"d">> >>)
    /\ result[1].dataTypes[1][<<"1">>] = "number"
    /\ result[1].dataTypes[1][<<"b">>] = "boolean"
    /\ result[1].dataTypes[1][<<"d">>] = "date"

\* C17: each record of a CSV sample has exactly the header names as keys,
\* and it maps the i-th header to the i-th trimmed token of its row, or to
\* the empty string where the row has fewer than i tokens; tokens behind the
\* last header are not in the record.
C17_SampleRowByPosition ==
    (Resolved /\ IsType(Csv) /\ result[1].sampleData # None) =>
        \A r \in 1..Len(result[1].sampleData[1]) :
            \A tokens \in {csvTokens(SourceLines[r + 1])} :
                /\ DOMAIN result[1].sampleData[1][r] = Range(result[1].headers[1])
                /\ \A i \in 1..Len(result[1].headers[1]) :
                       result[1].sampleData[1][r][result[1].headers[1][i]]
                         = IF i <= Len(tokens) THEN tokens[i] ELSE <<>>

\* the cell of a line in the column at position index, undefined where the
\* line has fewer cells
CellOf(line, index) ==
    \* split and trim as the analyser's tokens
    IF index <= Len(csvTokens(line)) THEN Str(csvTokens(line)[index]) ELSE Undefined

\* C18: the type of a CSV header is inferred from the column's cells in all
\* data rows and its statistics count the cells of all data rows: a cell in
\* the sixth or a later row that is not numeric makes the type other than
\* number and leaves the header without a statistics entry.
C18_TypesOverAllRows ==
    (Resolved /\ IsType(Csv) /\ result[1].headers # None) =>
        \A h \in Range(result[1].headers[1]) :
            \A index \in {LastIndex(result[1].headers[1], h)} :
                /\ result[1].dataTypes[1][h]
                     = detectDataType([r \in 1..(Len(SourceLines) - 1) |->
                                          CellOf(SourceLines[r + 1], index)])
                /\ h \in DOMAIN result[1].statistics[1] <=> result[1].dataTypes[1][h] = "number"
                /\ h \in DOMAIN result[1].statistics[1]
                   => result[1].statistics[1][h][1].count
                        = Cardinality({r \in 1..(Len(SourceLines) - 1) :
                                          IsNonEmpty(CellOf(SourceLines[r + 1], index))})
                /\ (\E r \in 6..(Len(SourceLines) - 1) :
                        /\ IsNonEmpty(CellOf(SourceLines[r + 1], index))
                        /\ ~IsNumberLike(CellOf(SourceLines[r + 1], index)))
                   => /\ result[1].dataTypes[1][h] # "number"
                      /\ h \notin DOMAIN result[1].statistics[1]

\* five numeric cells in the first column, and a sixth that is not numeric
C18_SixthRowNotNumeric ==
    /\ Resolved /\ IsType(Csv)
    /\ result[1].rowCount = Some(6)
    /\ \A r \in 1..5 : IsNumberLike(CellOf(SourceLines[r + 1], 1))
    /\ CellOf(SourceLines[7], 1) = Str(<<"x">>)
    /\ result[1].dataTypes[1][<<"3">>] = "string"
    /\ <<"3">> \notin DOMAIN result[1].statistics[1]

\* the numbers handed to calculateStatistics, as integers
StatInts == [i \in 1..Len(statInput) |-> statInput[i].mant]

\* v is the k-th member of the ascending sort of xs
IsKth(xs, k, v) ==
    /\ \E i \in 1..Len(xs) : xs[i] = v
    /\ Cardinality({i \in 1..Len(xs) : xs[i] < v}) < k
    /\ k <= Cardinality({i \in 1..Len(xs) : xs[i] <= v})

\* n^2 times the sum of the squared deviations of xs from sum / n
ScaledSquaredDeviations(xs, n, sum) ==
    Sum([i \in 1..n |-> (n * xs[i] - sum) * (n * xs[i] - sum)], n)

\* q is the quotient a / b
IsQuotient(q, a, b) == q.den > 0 /\ q.num * b = a * q.den

StatisticsAsClaimed(stats, xs, n) ==
    /\ stats.count = n
    /\ \E i \in 1..n : IsQuotient(stats.min, xs[i], 1) /\ \A j \in 1..n : xs[i] <= xs[j]
    /\ \E i \in 1..n : IsQuotient(stats.max, xs[i], 1) /\ \A j \in 1..n : xs[j] <= xs[i]
    /\ IsQuotient(stats.mean, Sum(xs, n), n)
    /\ IF n % 2 = 1
       THEN \E i \in 1..n : IsKth(xs, (n + 1) \div 2, xs[i]) /\ IsQuotient(stats.median, xs[i], 1)
       ELSE \E i, j \in 1..n : /\ IsKth(xs, n \div 2, xs[i])
                               /\ IsKth(xs, n \div 2 + 1, xs[j])
                               /\ IsQuotient(stats.median, xs[i] + xs[j], 2)
    /\ IsQuotient(stats.stdDevSquared, ScaledSquaredDeviations(xs, n, Sum(xs, n)), n * n * n)
    /\ (\A i \in 1..n : xs[i] = xs[1]) => stats.stdDevSquared.num = 0

\* C19: for a non-empty sequence of integers calculateStatistics returns
\* count = the length, min and max = the extrema, mean = sum / count, median
\* = the middle member of the ascending sort or the average of the two
\* central ones, stdDev = the root of the sum of squared deviations over
\* count; so stdDev of a constant sequence is 0, the median of 1,2,3,4 is
\* 5/2 and the mean of 1,2,3 is 2; and the call leaves its input in order.
C19_Statistics ==
    /\ []((statOutput # None /\ statInput # <<>>) =>
            /\ statOutput[1] # None
            /\ StatisticsAsClaimed(statOutput[1][1], StatInts, Len(statInput))
            /\ StatInts = <<1, 2, 3, 4>> => statOutput[1][1].median = [num |-> 5, den |-> 2]
            /\ StatInts = <<1, 2, 3>> => statOutput[1][1].mean = [num |-> 2, den |-> 1]
            /\ StatInts = <<5, 5, 5>> => statOutput[1][1].stdDevSquared = [num |-> 0, den |-> 1])
    /\ [][statInput' = statInput]_vars

\* an unsorted input of even count with two different central values
C19_UnsortedEvenCount ==
    /\ statOutput # None
    /\ StatInts = <<4, -3, 3, 1>>
    /\ statOutput[1][1].median = [num |-> 2, den |-> 1]
    /\ statOutput[1][1].stdDevSquared = [num |-> 115, den |-> 16]
    /\ statOutput[1][1].min = [num |-> -3, den |-> 1]

Units == {"Bytes", "KB", "MB", "GB"}

\* C20: formatFileSize gives "0 Bytes" for the length 0 and else the length
\* over 1024^i, rounded to two decimals, with the unit of i, which is one of
\* Bytes, KB, MB, GB, where i is the largest exponent with 1024^i <= the
\* length; 1536 gives "1.5 KB".
C20_SizeText ==
    sizeOutput # None =>
        /\ sizeInput.units = 0 => sizeOutput[1] = [hundredths |-> 0, unit |-> "Bytes"]
        /\ sizeOutput[1].unit \in Units
        /\ sizeInput.units > 0 =>
              \E j \in 0..2 :
                  /\ Pow1024(j) <= sizeInput.units
                  /\ sizeInput.units < Pow1024(j + 1)
                  /\ sizeInput.power + j < Len(sizes) => sizeOutput[1].unit = sizes[sizeInput.power + j + 1]
                  \* the nearest hundredth of units / 1024^j
                  /\ 2 * Pow1024(j) * sizeOutput[1].hundredths <= 200 * sizeInput.units + Pow1024(j)
                  /\ 200 * sizeInput.units + Pow1024(j) < 2 * Pow1024(j) * (sizeOutput[1].hundredths + 1)
        /\ (sizeInput.units = 1536 /\ sizeInput.power = 0)
              => sizeOutput[1] = [hundredths |-> 150, unit |-> "KB"]

\* the i-th call has settled as the call on its file settles when run alone
SettledAsAlone(i) ==
    \A alone \in {analyzeContent(calls[i].file)} :
        /\ calls[i].pc = "resolved" =>
              /\ ~alone.threw
              /\ calls[i].result = Some(alone.value)
              /\ calls[i].error = None
        /\ calls[i].pc = "rejected" =>
              /\ calls[i].result = None
              /\ calls[i].error \in {Some("Error reading file")}
                                    \cup (IF alone.threw THEN {Some("TypeError")} ELSE {})
        /\ calls[i].pc \in {"idle", "reading"} => calls[i].result = None /\ calls[i].error = None

IsAskedFor(t) ==
    \A cfg \in {genInput[1].outputConfig} :
        \A format \in {IF cfg.format = "" THEN "text" ELSE cfg.format} :
            CASE t = "text" -> TRUE
              [] t = "graph" -> format = "graph"
                                \/ ("includeGraphs" \in DOMAIN cfg.options /\ cfg.options.includeGraphs)
              [] t = "data" -> format = "data"
                               \/ ("includeData" \in DOMAIN cfg.options /\ cfg.options.includeData)
              [] t = "audio" -> format = "audio"
              [] t = "video" -> format = "video"

\* C28: generateResults returns the empty list exactly for a null
\* fileAnalysis; else one text result first, then in this order a graph, a
\* data, an audio and a video result, each exactly if asked for, no type
\* twice; and fileAnalysis with its sample rows is left as it was.
C28_ResultTypesInOrder ==
    /\ [](genOutput # None =>
            /\ genOutput[1] = <<>> <=> genInput[1].fileAnalysis = None
            /\ genInput[1].fileAnalysis # None =>
                  /\ [i \in 1..Len(genOutput[1]) |-> genOutput[1][i].type]
                       = SelectSeq(<<"text", "graph", "data", "audio", "video">>, IsAskedFor)
                  /\ genOutput[1][1].type = "text"
            /\ \A i, j \in 1..Len(genOutput[1]) :
                  genOutput[1][i].type = genOutput[1][j].type => i = j)
    /\ [][genInput' = genInput]_vars

\* format graph with the data option set: text, graph and data, whose row
\* is a copy of the sample row with the keys of k-means added
C28_TextGraphData ==
    /\ genOutput # None
    /\ Len(genOutput[1]) = 3
    /\ genOutput[1][2].type = "graph"
    /\ genOutput[1][3].type = "data"
    /\ genInput[1].outputConfig.format = "graph"
    /\ Len(genOutput[1][3].output.data) = 1
    /\ genOutput[1][3].output.data[1].added = {"cluster", "distance_to_centroid"}

\* C22: once handleFilesUploaded has finished handling an upload, the record
\* the page holds, shows and hands to generateResults is not the one of an
\* earlier upload.
C22_RecordIsOfLastUpload ==
    (upload.count >= 1 /\ ~upload.inFlight) =>
        \/ page.fileAnalysis = None
        \/ page.fileAnalysis[1].upload = upload.count

\* C23: on step 5, the results screen, results is not empty.
C23_ResultsOnStepFive ==
    page.currentStep = 5 => Len(page.results) > 0

\* C24: the prerequisites of a step hold while it is shown: from step 2 on
\* fileAnalysis is not null, from step 3 on an algorithm is selected.
C24_StepPrerequisites ==
    /\ page.currentStep >= 2 => page.fileAnalysis # None
    /\ page.currentStep >= 3 => page.selectedAlgorithm # ""

\* C25: the callback of a run that was cancelled has no effect when it runs:
\* it leaves processingStatus, results and currentStep as they are.
C25_CancelledRunHasNoEffect ==
    [][\A t \in timers.pending :
          (t.cancelled /\ t \notin timers'.pending) =>
              /\ page'.processingStatus = page.processingStatus
              /\ page'.results = page.results
              /\ page'.currentStep = page.currentStep]_vars

\* C26: while processingStatus is processing a completion callback is
\* pending, and processing leads to completed on step 5 unless the user
\* cancels: the page does not stay in processing for ever.
C26_ProcessingCompletes ==
    /\ [](page.processingStatus = "processing" => timers.pending # {})
    /\ (page.processingStatus = "processing")
          ~> (page.processingStatus = "idle"
              \/ (page.processingStatus = "completed" /\ page.currentStep = 5))

\* C27: uploadProgress is 0 when an upload starts, moves only by steps of 5
\* and stays at or below 95 while the analysis is in flight; once it has
\* settled the interval is cleared, isUploading is false, uploadProgress is
\* 100, and it stays so until the next upload.
C27_UploadProgress ==
    /\ [](/\ page.isUploading <=> upload.inFlight
          /\ upload.inFlight =>
                /\ page.uploadProgress \in {ProgressStep * k : k \in 0..(ProgressCap \div ProgressStep)}
                /\ upload.interval \/ page.uploadProgress = ProgressCap
          /\ (~upload.inFlight /\ upload.count >= 1) =>
                /\ ~upload.interval
                /\ page.uploadProgress = ProgressDone)
    /\ [][/\ (~upload.inFlight /\ upload'.inFlight) => page'.uploadProgress = 0
          /\ (upload.inFlight /\ upload'.inFlight) =>
                page'.uploadProgress \in {page.uploadProgress, page.uploadProgress + ProgressStep}
          /\ (~upload.inFlight /\ ~upload'.inFlight) =>
                page'.uploadProgress = page.uploadProgress]_vars

\* the analysis is still in flight when the progress has reached 95 and the
\* tick has cleared the interval
C27_WaitingAtCap ==
    /\ upload.inFlight
    /\ page.isUploading
    /\ page.uploadProgress = ProgressCap
    /\ ~upload.interval

\* the values of the column of header h in all rows of the analysed file
ColumnValues(h) ==
    IF IsType(Csv)
    THEN [r \in 1..(Len(SourceLines) - 1) |->
            CellOf(SourceLines[r + 1], LastIndex(result[1].headers[1], h))]
    ELSE Only({[i \in 1..Len(rows) |-> IF rows[i].t \in {"obj", "arr", "str"}
                                       THEN Get(rows[i], h) ELSE Undefined]
               : rows \in {jsonRows(readFileContent(file, Json))}})

\* C29: in every record of a CSV or JSON file each header typed number has
\* a statistics entry that is a full record, whose count is at least 1 and
\* is the number of non-empty values of the column; the empty record of
\* calculateStatistics for no value is in no returned record.
C29_NumberColumnsHaveFullStatistics ==
    (Resolved /\ (IsType(Csv) \/ IsType(Json)) /\ result[1].dataTypes # None) =>
        /\ \A h \in DOMAIN result[1].dataTypes[1] :
              result[1].dataTypes[1][h] = "number" =>
                  /\ h \in DOMAIN result[1].statistics[1]
                  /\ result[1].statistics[1][h] # None
                  /\ result[1].statistics[1][h][1].count >= 1
                  /\ result[1].statistics[1][h][1].count
                       = Cardinality({i \in DOMAIN ColumnValues(h) : IsNonEmpty(ColumnValues(h)[i])})
        /\ \A h \in DOMAIN result[1].statistics[1] : result[1].statistics[1][h] # None

\* a JSON array of three elements whose key a has the values 1, none and ""
C29_OneValueOfThree ==
    /\ Resolved /\ IsType(Json)
    /\ result[1].rowCount = Some(3)
    /\ result[1].dataTypes[1][<<"a">>] = "number"
    /\ result[1].statistics[1][<<"a">>][1].count = 1

\* the lower-cased extension of the file, with its dot, is an accepted type
\* and the size is at most maxFileSize MB
IsAcceptable(f) ==
    /\ CountChar(f.name, ".") > 0
    /\ <<".">> \o toLowerCase(ExtensionOf(f.name)) \in Range(acceptedFileTypes)
    /\ f.size <= maxFileSize * 1024 * 1024

\* C30: of every batch selected or dropped, the files added to the file
\* list and handed to onFilesUploaded are exactly those with an accepted
\* lower-cased extension and a size of at most maxFileSize MB; a rejected
\* file gets an error entry; onFilesUploaded is not called when no file of
\* the batch is accepted.
C30_AcceptedFilesForwarded ==
    [][widget'.batches = widget.batches + 1 =>
          \A accepted \in {SelectSeq(widget'.selected, IsAcceptable)} :
              /\ widget'.files = widget.files \o accepted
              /\ widget'.forwarded = IF Len(accepted) > 0 THEN Append(widget.forwarded, accepted)
                                     ELSE widget.forwarded
              /\ \A i \in 1..Len(widget'.selected) :
                    ~IsAcceptable(widget'.selected[i])
                        => widget'.selected[i].name \in DOMAIN widget'.fileErrors]_vars

====
